---- MODULE Spec2Model ----
(***************************************************************************)
(* A model of json-mapping (src/index.js): the decoder representation, the *)
(* combinator constructors, the recursive interpreter decodeInternal with  *)
(* its Result wrappers, the error-message construction, and the boundary   *)
(* function decode.                                                        *)
(*                                                                         *)
(* JavaScript values are tagged records (field t).  Containers carry the   *)
(* identity of their allocation (field id).  A JavaScript string that is   *)
(* used as message text is a non-empty sequence of lines: the text is the  *)
(* lines joined by the newline character, so that the interpreter's        *)
(* replace(/\n/g, ...) calls are modelled by what they do to each line.    *)
(* The box-drawing characters of the oneOf message are written in ASCII:   *)
(* "+" for U+250C, "|" for U+2502, "-" for U+2500, "#" for U+251C and "^"  *)
(* for U+2534.                                                             *)
(***************************************************************************)
EXTENDS Integers, Sequences, FiniteSets, TLC

VARIABLES decoder, made, wraps, value, result, prev, heap, base, pc, call

vars == <<decoder, made, wraps, value, result, prev, heap, base, pc, call>>

(***************************************************************************)
(* Bounds of the model.                                                    *)
(***************************************************************************)
MaxWraps == 1
MaxPath == 2
MaxList == 3
\* the number of nested decodeInternal frames the stack of the engine holds
MaxStack == 16
\* the room a caller has left on the stack, in units (see Fits): it holds
\* MaxStack frames of decodeInternal, and one more call or not
Stacks == {2 * MaxStack, 2 * MaxStack + 1}

(***************************************************************************)
(* Decoder tags, src/index.js:21-43.                                       *)
(***************************************************************************)
STRING_TAG == 0
NUMBER == 1
INTEGER == 3
BOOL == 4
FIELD == 5
OBJECT == 6
INSTANCE_TAG == 7
MAP == 8
AND_THEN == 9
LAZY == 10
MANY == 11
SUCCEED == 12
FAIL == 13
ONE_OF == 14
UNKNOWN == 15
DICT == 16
FIELD_ERROR_META == 999

(***************************************************************************)
(* JavaScript values.  A number is finite (k = "fin", its value m tenths), *)
(* not-a-number or an infinity; an integer too large to be counted in      *)
(* tenths is written by its decimal digits (k = "big").                    *)
(***************************************************************************)
Undefined == [t |-> "undefined"]
Null == [t |-> "null"]
Bool(b) == [t |-> "bool", b |-> b]
Num(n) == [t |-> "num", k |-> "fin", m |-> 10 * n]
Tenths(m) == [t |-> "num", k |-> "fin", m |-> m]
NaN == [t |-> "num", k |-> "nan", m |-> 0]
Infinity == [t |-> "num", k |-> "inf", m |-> 0]
NegInfinity == [t |-> "num", k |-> "ninf", m |-> 0]
Big(neg, digits) == [t |-> "num", k |-> "big", m |-> 0, neg |-> neg, digits |-> digits]
\* Number.MAX_SAFE_INTEGER and Number.MIN_SAFE_INTEGER: 2^53 - 1 and its negative
MAX_SAFE_INTEGER == Big(FALSE, <<9, 0, 0, 7, 1, 9, 9, 2, 5, 4, 7, 4, 0, 9, 9, 1>>)
MIN_SAFE_INTEGER == Big(TRUE, <<9, 0, 0, 7, 1, 9, 9, 2, 5, 4, 7, 4, 0, 9, 9, 1>>)
Symbol(d) == [t |-> "symbol", d |-> d]
\* the BigInt n, written with the suffix n
BigInt(n) == [t |-> "bigint", n |-> n]
Str(s) == [t |-> "str", s |-> s]
Arr(id, items) == [t |-> "arr", id |-> id, items |-> items]
Obj(id, proto, keys, vals) ==
    [t |-> "obj", id |-> id, proto |-> proto, keys |-> keys, vals |-> vals]

\* typeof value
TypeOf(v) ==
    CASE v.t = "undefined" -> "undefined"
      [] v.t = "null" -> "object"
      [] v.t = "bool" -> "boolean"
      [] v.t = "num" -> "number"
      [] v.t = "str" -> "string"
      [] v.t = "symbol" -> "symbol"
      [] v.t = "bigint" -> "bigint"
      [] v.t = "arr" -> "object"
      [] v.t = "obj" -> "object"

\* Array.isArray(value)
IsArray(v) == v.t = "arr"

RECURSIVE IndexOf(_, _, _)
\* the index of key k among the own keys of an object, 0 when absent
IndexOf(keys, k, i) ==
    IF i > Len(keys) THEN 0
    ELSE IF keys[i] = k THEN i
    ELSE IndexOf(keys, k, i + 1)

\* the property names a for-in loop visits, in order
OwnKeys(v) ==
    IF v.t = "obj" THEN v.keys
    ELSE IF v.t = "arr" THEN [i \in 1..Len(v.items) |-> ToString(i - 1)]
    ELSE <<>>

\* key in value, for a non-null value of type object.  The names of the
\* model are not names that Object.prototype or Array.prototype define, so
\* only own properties and the length of an array are in a value.
HasKey(v, k) ==
    \/ IndexOf(OwnKeys(v), k, 1) > 0
    \/ v.t = "arr" /\ k = "length"

\* value[key], for a key that is in value
Get(v, k) ==
    IF v.t = "arr" /\ k = "length" THEN Num(Len(v.items))
    ELSE IF v.t = "arr" THEN v.items[IndexOf(OwnKeys(v), k, 1)]
    ELSE v.vals[IndexOf(v.keys, k, 1)]

(***************************************************************************)
(* Text: a non-empty sequence of lines.                                    *)
(***************************************************************************)
T(s) == <<s>>
NL == <<"", "">>

\* string concatenation a + b
Cat(a, b) ==
    SubSeq(a, 1, Len(a) - 1) \o <<a[Len(a)] \o b[1]>> \o SubSeq(b, 2, Len(b))

\* text.replace(/\n/g, '\n' + prefix)
IndentAfterNewline(text, prefix) ==
    [i \in 1..Len(text) |-> IF i = 1 THEN text[i] ELSE prefix \o text[i]]

(***************************************************************************)
(* JSON.stringify(value, debugReplace, 4), as a sequence of lines.         *)
(***************************************************************************)
RECURSIVE Digits(_, _)
\* the decimal digits ds[i..] as text
Digits(ds, i) ==
    IF i > Len(ds) THEN "" ELSE ToString(ds[i]) \o Digits(ds, i + 1)

\* a number as JSON.stringify writes it
NumberText(v) ==
    IF v.k = "big" THEN (IF v.neg THEN "-" ELSE "") \o Digits(v.digits, 1)
    ELSE IF v.k # "fin" THEN "null"
    ELSE LET a == IF v.m < 0 THEN 0 - v.m ELSE v.m
             sign == IF v.m < 0 THEN "-" ELSE ""
         IN  IF a % 10 = 0 THEN sign \o ToString(a \div 10)
             ELSE sign \o ToString(a \div 10) \o "." \o ToString(a % 10)

Quote(s) == "\"" \o s \o "\""

\* the loop of debugReplace over the fields of a nested object
RECURSIVE fieldStr(_, _)
fieldStr(keys, fieldCount) ==
    IF fieldCount >= Len(keys) THEN ""
    ELSE (IF fieldCount = 3 THEN ", ..."
          ELSE IF fieldCount < 3
               THEN (IF fieldCount = 0 THEN "" ELSE ", ")
                    \o "'" \o keys[fieldCount + 1] \o "'"
               ELSE "")
         \o fieldStr(keys, fieldCount + 1)

\* debugReplace(key, value) for key # '': the nested value as it is written
debugReplace(v) ==
    IF v.t = "arr" THEN
        IF Len(v.items) = 0 THEN v
        ELSE IF Len(v.items) = 1 THEN Str("<Array with a single item>")
        ELSE Str("<Array with " \o ToString(Len(v.items)) \o " items>")
    ELSE IF v.t = "obj" THEN
        LET fieldCount == Len(v.keys)
        IN  IF fieldCount = 0 THEN v
            ELSE IF fieldCount = 1
            THEN Str("<Object with the field " \o fieldStr(v.keys, 0) \o ">")
            ELSE IF fieldCount <= 4
            THEN Str("<Object with these fields: " \o fieldStr(v.keys, 0) \o ">")
            ELSE Str("<Object with " \o ToString(fieldCount) \o " fields, like "
                     \o fieldStr(v.keys, 0) \o ">")
    ELSE v

\* the one-line JSON text of a value that holds no non-empty container
Scalar(v) ==
    CASE v.t = "undefined" -> "undefined"
      [] v.t = "null" -> "null"
      [] v.t = "bool" -> (IF v.b THEN "true" ELSE "false")
      [] v.t = "num" -> NumberText(v)
      [] v.t = "str" -> Quote(v.s)
      [] v.t = "symbol" -> "undefined"
      [] v.t = "arr" -> "[]"
      [] v.t = "obj" -> "{}"

\* the lines of the items of an array, each but the last ending in a comma
ItemLines(items) ==
    [i \in 1..Len(items) |->
        "    "
        \o (IF items[i].t \in {"undefined", "symbol"} THEN "null"
            ELSE Scalar(debugReplace(items[i])))
        \o (IF i < Len(items) THEN "," ELSE "")]

\* the properties JSON.stringify writes: those whose value is neither
\* undefined nor a symbol
RECURSIVE Written(_, _)
Written(v, i) ==
    IF i > Len(v.keys) THEN <<>>
    ELSE (IF v.vals[i].t \in {"undefined", "symbol"} THEN <<>> ELSE <<i>>)
         \o Written(v, i + 1)

PropLines(v) ==
    LET w == Written(v, 1)
    IN  [j \in 1..Len(w) |->
            "    " \o Quote(v.keys[w[j]]) \o ": "
            \o Scalar(debugReplace(v.vals[w[j]]))
            \o (IF j < Len(w) THEN "," ELSE "")]

Stringify(v) ==
    IF v.t = "arr" /\ Len(v.items) > 0
    THEN <<"[">> \o ItemLines(v.items) \o <<"]">>
    ELSE IF v.t = "obj" /\ Len(Written(v, 1)) > 0
    THEN <<"{">> \o PropLines(v) \o <<"}">>
    ELSE <<Scalar(v)>>

\* JSON.stringify(value, debugReplace, 4) raises a TypeError: it does so
\* for a BigInt, which debugReplace returns as it is, be it the value or an
\* item or a property value of it (a container inside the value is
\* replaced by a string before its own members are looked at)
StringifyRaises(v) ==
    \/ v.t = "bigint"
    \/ v.t = "arr" /\ \E i \in 1..Len(v.items) : v.items[i].t = "bigint"
    \/ v.t = "obj" /\ \E i \in 1..Len(v.vals) : v.vals[i].t = "bigint"

\* for a value JSON.stringify does not raise for
toDebugString(v) ==
    LET str == Cat(NL, Stringify(v))
    IN  Cat(IndentAfterNewline(str, "    "), NL)

expected(type, v) ==
    Cat(T("Expected " \o type \o ", but got"), Cat(NL, toDebugString(v)))

(***************************************************************************)
(* Decoders: records with a tag and the payload of the tag.  A layout is   *)
(* the sequence of the properties of the layout object, in declaration     *)
(* order.  A callback is a record naming the function (see Call).          *)
(***************************************************************************)
Prop(key, child) == [key |-> key, child |-> child]

field(key, child) == [tag |-> FIELD, key |-> key, child |-> child]

string == [tag |-> STRING_TAG]
number == [tag |-> NUMBER]
integer == [tag |-> INTEGER]
bool == [tag |-> BOOL]

object(layout) == [tag |-> OBJECT, layout |-> layout]

instance(ctor, layout) == [tag |-> INSTANCE_TAG, ctor |-> ctor, layout |-> layout]

lazy(fn) == [tag |-> LAZY, fn |-> fn]

many(child) == [tag |-> MANY, child |-> child]

andThen(fn, child) == [tag |-> AND_THEN, child |-> child, fn |-> fn]

map(fn, child) == [tag |-> MAP, child |-> child, fn |-> fn]

succeed(v) == [tag |-> SUCCEED, value |-> v]

fail(message) == [tag |-> FAIL, message |-> message]

oneOf(decoders) == [tag |-> ONE_OF, decoders |-> decoders]

\* a variant that puts the default first
optionalDefaultFirst(val, child) == oneOf(<<succeed(val), child>>)

optional(val, child) == oneOf(<<child, succeed(val)>>)

RECURSIVE atLoopInnerFirst(_, _, _)
\* a variant that wraps the child in the first name of the path first
atLoopInnerFirst(path, dec, i) ==
    IF i > 0 THEN atLoopInnerFirst(path, field(path[Len(path) - i + 1], dec), i - 1)
    ELSE dec

RECURSIVE atLoop(_, _, _)
\* while (i-- > 0) dec = Decode.field(path[i], dec)   (path[i] is path[i + 1] here)
atLoop(path, dec, i) ==
    IF i > 0 THEN atLoop(path, field(path[i], dec), i - 1) ELSE dec

at(path, child) == atLoop(path, child, Len(path))

unknown == [tag |-> UNKNOWN]

dict(child) == [tag |-> DICT, child |-> child]

optionalField(key, val, child) ==
    [tag |-> FIELD, key |-> key, child |-> child, otherwise |-> val]

RECURSIVE optionalAtLoopOuterOnly(_, _, _, _)
\* a variant in which only the outer-most field has the default
optionalAtLoopOuterOnly(path, val, dec, i) ==
    IF i > 1 THEN optionalAtLoopOuterOnly(path, val, field(path[i], dec), i - 1)
    ELSE IF i = 1 THEN optionalField(path[1], val, dec)
    ELSE dec

RECURSIVE optionalAtLoop(_, _, _, _)
optionalAtLoop(path, val, dec, i) ==
    IF i > 0 THEN optionalAtLoop(path, val, optionalField(path[i], val, dec), i - 1)
    ELSE dec

optionalAt(path, val, child) == optionalAtLoop(path, val, child, Len(path))

(***************************************************************************)
(* Result wrappers.                                                        *)
(***************************************************************************)
ok(v) == [ok |-> TRUE, value |-> v]

isOk(res) == res.ok = TRUE

err(msg, meta) == [ok |-> FALSE, msg |-> msg, meta |-> meta]

(***************************************************************************)
(* One run of the interpreter threads the record st: the calls made so far *)
(* (st.calls: every decodeInternal invocation and every callback call, in  *)
(* order), the identity of the next allocation (st.next), the number of   *)
(* decodeInternal frames on the stack and the highest it has been          *)
(* (st.depth, st.peak), the room of the stack (st.stack) and the           *)
(* containers assigned to (st.writes).  A step                             *)
(* ends with a Result (exc = "none") or with an exception (exc names it),  *)
(* raised by a callback, by the engine or by JSON.stringify, which unwinds *)
(* every enclosing step.                                                   *)
(***************************************************************************)
Step(res, st) == [exc |-> "none", res |-> res, st |-> st]
Raise(exc, st) == [exc |-> exc, res |-> err(T(exc), Undefined), st |-> st]
Log(st, event) == [st EXCEPT !.calls = Append(@, event)]
Alloc(st) == [st EXCEPT !.next = @ + 1]
\* the state in which an exported function starts to interpret, n the
\* identity of the next allocation, stack the room the caller has left on
\* the stack of the engine
Begin(n, stack) ==
    [calls |-> <<>>, next |-> n, depth |-> 0, peak |-> 0, writes |-> {}, stack |-> stack]
\* a frame of decodeInternal is pushed, and popped when the step r ends
Enter(st) ==
    [st EXCEPT !.depth = @ + 1,
               !.peak = IF st.depth + 1 > @ THEN st.depth + 1 ELSE @]
Leave(r, depth) == [r EXCEPT !.st.depth = depth]
\* the stack has room for one more call.  The room is counted in units: a
\* frame of decodeInternal (with the frame of decodeObj it may call) takes
\* two, any other call made from a frame (a callback, ok, err, expected
\* with the calls it makes) takes one and gives it back when it returns
Fits(st, units) == 2 * st.depth + units <= st.stack
\* an assignment to a property or an element of the container id
Wrote(st, id) == [st EXCEPT !.writes = @ \cup {id}]
Interpret(d, v) == [ev |-> "decodeInternal", decoder |-> d, value |-> v]
Called(fn, arg) == [ev |-> "call", fn |-> fn, arg |-> arg]
\* return ok(...) or return err(...): the step ends with the Result, or
\* with the exception of the engine when the stack has no room for the call
Result(res, st) ==
    IF ~Fits(st, 1) THEN Raise("RangeError", st)
    ELSE Step(res, st)
\* return err(expected(type, value)): the step ends with that failure, or
\* with the exception of the engine when the stack has no room for the call
\* of expected, or with the exception JSON.stringify raises while expected
\* builds the text
errExpected(type, v, st) ==
    IF ~Fits(st, 1) THEN Raise("RangeError", st)
    ELSE IF StringifyRaises(v) THEN Raise("TypeError", st)
    ELSE Step(err(expected(type, v), Undefined), st)

(***************************************************************************)
(* Callbacks.  The functions a caller hands to map, andThen, lazy and      *)
(* instance are taken from the repository's tests:                         *)
(*   times10   n => n * 10                                                 *)
(*   big       v => v > 100 ? Decode.succeed('big') : Dec.fail('too small')*)
(*             (Dec is not defined: the second branch raises)              *)
(*   const     () => d, for a decoder d                                    *)
(*   User      class User {}                                               *)
(* and from the example of Decode.andThen in src/index.d.ts, with the      *)
(* property names of the inputs of the model ('a' for 'data', 'b' for      *)
(* 'error'):                                                               *)
(*   response  success => success ? Decode.field('a', d)                   *)
(*               : Decode.andThen(gotError, Decode.field('b', Decode.string)) *)
(*   gotError  error => Decode.fail('Got an error response: ' + error)     *)
(* The test of Decode.lazy gives the decoder of a tree that refers to      *)
(* itself, with the property names 'a' for 'value' and 'b' for 'nodes':    *)
(*   Tree      class {}                                                    *)
(*   manyTree  () => Decode.many(Tree_decoder)                             *)
(* and a caller may write a decoder that is its own callback's result:     *)
(*   loop      () => Loop_decoder                                          *)
(*   loopThen  () => LoopThen_decoder                                      *)
(***************************************************************************)
Tree_decoder ==
    instance([name |-> "Tree"],
             <<Prop("a", field("a", integer)),
               Prop("b", field("b", lazy([name |-> "manyTree"])))>>)

\* const Loop_decoder = Decode.lazy(() => Loop_decoder)
Loop_decoder == lazy([name |-> "loop"])

\* const LoopThen_decoder = Decode.andThen(() => LoopThen_decoder, Decode.succeed(0))
LoopThen_decoder == andThen([name |-> "loopThen"], succeed(Num(0)))

\* Number(s), for the strings of the model
StrToNumber(s) ==
    CASE s = "" -> Num(0)
      [] s = "2" -> Num(2)
      [] s = "42" -> Num(42)
      [] OTHER -> NaN

RECURSIVE ToNumber(_)
\* the numeric conversion that * and > apply to an operand; a BigInt is
\* compared by its value, and is no operand of * (see Call)
ToNumber(v) ==
    CASE v.t = "undefined" -> NaN
      [] v.t = "bigint" -> Num(v.n)
      [] v.t = "null" -> Num(0)
      [] v.t = "bool" -> (IF v.b THEN Num(1) ELSE Num(0))
      [] v.t = "num" -> v
      [] v.t = "str" -> StrToNumber(v.s)
      [] v.t = "obj" -> NaN
      [] v.t = "arr" ->
            IF Len(v.items) = 0 THEN Num(0)
            ELSE IF Len(v.items) > 1 THEN NaN
            ELSE LET x == v.items[1]
                 IN  CASE x.t \in {"undefined", "null"} -> Num(0)
                       [] x.t \in {"bool", "obj"} -> NaN
                       [] OTHER -> ToNumber(x)

RECURSIVE NoNumber(_)
\* the numeric conversion of v raises a TypeError: v is a symbol, or an
\* array whose conversion to a string meets a symbol
NoNumber(v) ==
    \/ v.t = "symbol"
    \/ v.t = "arr" /\ \E i \in 1..Len(v.items) : NoNumber(v.items[i])

\* n * 10 for a number n written by its digits: the digits of the nearest
\* double, as JavaScript writes it
BigTimes10(n) ==
    CASE n.digits = <<9, 0, 0, 7, 1, 9, 9, 2, 5, 4, 7, 4, 0, 9, 9, 1>> ->
            Big(n.neg, <<9, 0, 0, 7, 1, 9, 9, 2, 5, 4, 7, 4, 0, 9, 9, 0, 0>>)
      [] n.digits = <<9, 0, 0, 7, 1, 9, 9, 2, 5, 4, 7, 4, 0, 9, 9, 0, 0>> ->
            Big(n.neg, <<9, 0, 0, 7, 1, 9, 9, 2, 5, 4, 7, 4, 0, 9, 9, 1, 0, 0>>)
      [] OTHER -> Big(n.neg, Append(n.digits, 0))

\* the condition success ? ... : ...
Truthy(v) ==
    CASE v.t \in {"undefined", "null"} -> FALSE
      [] v.t = "bool" -> v.b
      [] v.t = "num" -> ~(v.k = "nan" \/ (v.k = "fin" /\ v.m = 0))
      [] v.t = "str" -> v.s # ""
      [] v.t = "bigint" -> v.n # 0
      [] OTHER -> TRUE

\* 'Got an error response: ' + error; error is a result of Decode.string
ErrorResponse(v) == T("Got an error response: " \o v.s)

times10(v) ==
    LET n == ToNumber(v)
    IN  IF n.k = "fin" THEN Tenths(n.m * 10)
        ELSE IF n.k = "big" THEN BigTimes10(n)
        ELSE n

greaterThan100(v) ==
    LET n == ToNumber(v)
    IN  \/ n.k = "inf"
        \/ n.k = "big" /\ ~n.neg
        \/ n.k = "fin" /\ n.m > 1000

\* fn(arg): the call is logged; ret is the returned value or decoder.  When
\* the stack has no room for the call, the engine raises and fn does not run
Call(fn, arg, st) ==
    LET st1 == Log(st, Called(fn, arg))
    IN  CASE ~Fits(st, 1) ->
                [exc |-> "RangeError", ret |-> Undefined, st |-> st]
          [] fn.name = "times10" ->
                IF NoNumber(arg) \/ arg.t = "bigint"
                THEN [exc |-> "TypeError", ret |-> Undefined, st |-> st1]
                ELSE [exc |-> "none", ret |-> times10(arg), st |-> st1]
          [] fn.name = "big" ->
                IF NoNumber(arg)
                THEN [exc |-> "TypeError", ret |-> Undefined, st |-> st1]
                ELSE IF greaterThan100(arg)
                THEN [exc |-> "none", ret |-> succeed(Str("big")), st |-> st1]
                ELSE [exc |-> "ReferenceError", ret |-> Undefined, st |-> st1]
          [] fn.name = "const" ->
                [exc |-> "none", ret |-> fn.d, st |-> st1]
          [] fn.name = "response" ->
                [exc |-> "none",
                 ret |-> IF Truthy(arg) THEN [tag |-> FIELD, key |-> "a", child |-> fn.d]
                         ELSE [tag |-> AND_THEN,
                               child |-> [tag |-> FIELD, key |-> "b",
                                          child |-> [tag |-> STRING_TAG]],
                               fn |-> [name |-> "gotError"]],
                 st |-> st1]
          [] fn.name = "gotError" ->
                [exc |-> "none",
                 ret |-> [tag |-> FAIL, message |-> ErrorResponse(arg)],
                 st |-> st1]
          [] fn.name = "manyTree" ->
                [exc |-> "none", ret |-> many(Tree_decoder), st |-> st1]
          [] fn.name = "loop" ->
                [exc |-> "none", ret |-> Loop_decoder, st |-> st1]
          [] fn.name = "loopThen" ->
                [exc |-> "none", ret |-> LoopThen_decoder, st |-> st1]
          [] fn.name \in {"User", "Tree"} ->
                [exc |-> "none", ret |-> Obj(st1.next, fn.name, <<>>, <<>>),
                 st |-> Alloc(st1)]

\* obj[key] = v
SetProp(obj, key, v) ==
    LET i == IndexOf(obj.keys, key, 1)
    IN  IF i > 0 THEN [obj EXCEPT !.vals[i] = v]
        ELSE [obj EXCEPT !.keys = Append(@, key), !.vals = Append(@, v)]

(***************************************************************************)
(* The interpreter.  Each case of the switch of decodeInternal is an       *)
(* operator; the loops are recursive operators over the loop variable.     *)
(***************************************************************************)
RECURSIVE decodeInternal(_, _, _)

\* a variant that also rejects the infinities
caseNUMBERFinite(dec, v, st) ==
    IF TypeOf(v) # "number" \/ v.k \in {"nan", "inf", "ninf"}
    THEN errExpected("a number", v, st)
    ELSE Result(ok(v), st)

caseNUMBER(dec, v, st) ==
    IF TypeOf(v) # "number" \/ v.k = "nan"
    THEN errExpected("a number", v, st)
    ELSE Result(ok(v), st)

\* Math.trunc(value) !== value, for a value of type number: an infinity
\* and an integer are their own truncation, NaN is not equal to itself
truncDiffers(v) ==
    \/ v.k = "nan"
    \/ v.k = "fin" /\ v.m % 10 # 0

caseINTEGER(dec, v, st) ==
    IF TypeOf(v) # "number" \/ truncDiffers(v)
    THEN errExpected("an integer", v, st)
    ELSE Result(ok(v), st)

caseSTRING(dec, v, st) ==
    IF TypeOf(v) # "string"
    THEN errExpected("a string", v, st)
    ELSE Result(ok(v), st)

caseBOOL(dec, v, st) ==
    IF TypeOf(v) # "boolean"
    THEN errExpected("a boolean", v, st)
    ELSE Result(ok(v), st)

fieldTrace(key, v) ==
    Cat(<<"", "when attempting to decode the field '" \o key \o "' of", "">>,
        toDebugString(v))

\* a variant that returns the failure of the child without a trace line
caseFIELDNoTrace(dec, v, st) ==
    IF TypeOf(v) # "object" \/ v.t = "null"
    THEN errExpected("an object with a field named '" \o dec.key \o "'", v, st)
    ELSE IF ~HasKey(v, dec.key)
    THEN IF "otherwise" \in DOMAIN dec
         THEN Result(ok(dec.otherwise), st)
         ELSE errExpected("an object with a field named '" \o dec.key \o "'", v, st)
    ELSE decodeInternal(dec.child, Get(v, dec.key), st)

\* a variant that takes a property whose value is undefined for a missing one
caseFIELDUndefinedIsMissing(dec, v, st) ==
    IF TypeOf(v) # "object" \/ v.t = "null"
    THEN errExpected("an object with a field named '" \o dec.key \o "'", v, st)
    ELSE IF ~HasKey(v, dec.key) \/ Get(v, dec.key).t = "undefined"
    THEN IF "otherwise" \in DOMAIN dec
         THEN Result(ok(dec.otherwise), st)
         ELSE errExpected("an object with a field named '" \o dec.key \o "'", v, st)
    ELSE LET r == decodeInternal(dec.child, Get(v, dec.key), st)
         IN  IF r.exc # "none" THEN r
             ELSE IF isOk(r.res) THEN r
             ELSE IF ~Fits(r.st, 1) THEN Raise("RangeError", r.st)
             ELSE IF StringifyRaises(v) THEN Raise("TypeError", r.st)
             ELSE Step(err(Cat(r.res.msg, fieldTrace(dec.key, v)), r.res.meta), r.st)

\* a variant that returns the failure of the child without its marker
caseFIELDDropsMarker(dec, v, st) ==
    IF TypeOf(v) # "object" \/ v.t = "null"
    THEN errExpected("an object with a field named '" \o dec.key \o "'", v, st)
    ELSE IF ~HasKey(v, dec.key)
    THEN IF "otherwise" \in DOMAIN dec
         THEN Result(ok(dec.otherwise), st)
         ELSE errExpected("an object with a field named '" \o dec.key \o "'", v, st)
    ELSE LET r == decodeInternal(dec.child, Get(v, dec.key), st)
         IN  IF r.exc # "none" THEN r
             ELSE IF isOk(r.res) THEN r
             ELSE IF ~Fits(r.st, 1) THEN Raise("RangeError", r.st)
             ELSE IF StringifyRaises(v) THEN Raise("TypeError", r.st)
             ELSE Step(err(Cat(r.res.msg, fieldTrace(dec.key, v)), Undefined), r.st)

caseFIELD(dec, v, st) ==
    IF TypeOf(v) # "object" \/ v.t = "null"
    THEN errExpected("an object with a field named '" \o dec.key \o "'", v, st)
    ELSE IF ~HasKey(v, dec.key)
    THEN IF "otherwise" \in DOMAIN dec
         THEN Result(ok(dec.otherwise), st)
         ELSE errExpected("an object with a field named '" \o dec.key \o "'", v, st)
    ELSE LET r == decodeInternal(dec.child, Get(v, dec.key), st)
         IN  IF r.exc # "none" THEN r
             ELSE IF isOk(r.res) THEN r
             ELSE IF ~Fits(r.st, 1) THEN Raise("RangeError", r.st)
             ELSE IF StringifyRaises(v) THEN Raise("TypeError", r.st)
             ELSE Step(err(Cat(r.res.msg, fieldTrace(dec.key, v)), r.res.meta), r.st)

\* a variant that falls back to the input when the stored value is falsy
caseSUCCEEDOrInput(dec, v, st) ==
    Result(ok(IF Truthy(dec.value) THEN dec.value ELSE v), st)

caseSUCCEED(dec, v, st) == Result(ok(dec.value), st)

caseFAIL(dec, v, st) == Result(err(dec.message, Undefined), st)

\* a variant that calls the thunk a second time for the decoder it interprets
caseLAZYTwice(dec, v, st) ==
    LET c == Call(dec.fn, Undefined, Call(dec.fn, Undefined, st).st)
    IN  IF c.exc # "none" THEN Raise(c.exc, c.st)
        ELSE decodeInternal(c.ret, v, c.st)

\* a variant that interprets the lazy node again, not the decoder returned
caseLAZYSelf(dec, v, st) ==
    LET c == Call(dec.fn, Undefined, st)
    IN  IF c.exc # "none" THEN Raise(c.exc, c.st)
        ELSE decodeInternal(dec, v, c.st)

caseLAZY(dec, v, st) ==
    LET c == Call(dec.fn, Undefined, st)
    IN  IF c.exc # "none" THEN Raise(c.exc, c.st)
        ELSE decodeInternal(c.ret, v, c.st)

\* a variant that applies fn to the input, not to the result of the child
caseMAPOnInput(dec, v, st) ==
    LET r == decodeInternal(dec.child, v, st)
    IN  IF r.exc # "none" THEN r
        ELSE IF isOk(r.res)
        THEN LET c == Call(dec.fn, v, r.st)
             IN  IF c.exc # "none" THEN Raise(c.exc, c.st)
                 ELSE Result(ok(c.ret), c.st)
        ELSE r

caseMAP(dec, v, st) ==
    LET r == decodeInternal(dec.child, v, st)
    IN  IF r.exc # "none" THEN r
        ELSE IF isOk(r.res)
        THEN LET c == Call(dec.fn, r.res.value, r.st)
             IN  IF c.exc # "none" THEN Raise(c.exc, c.st)
                 ELSE Result(ok(c.ret), c.st)
        ELSE r

\* a variant that interprets the decoder fn returns against the result of
\* the child
caseAND_THENOnResult(dec, v, st) ==
    LET r == decodeInternal(dec.child, v, st)
    IN  IF r.exc # "none" THEN r
        ELSE IF isOk(r.res)
        THEN LET c == Call(dec.fn, r.res.value, r.st)
             IN  IF c.exc # "none" THEN Raise(c.exc, c.st)
                 ELSE decodeInternal(c.ret, r.res.value, c.st)
        ELSE r

caseAND_THEN(dec, v, st) ==
    LET r == decodeInternal(dec.child, v, st)
    IN  IF r.exc # "none" THEN r
        ELSE IF isOk(r.res)
        THEN LET c == Call(dec.fn, r.res.value, r.st)
             IN  IF c.exc # "none" THEN Raise(c.exc, c.st)
                 ELSE decodeInternal(c.ret, v, c.st)
        ELSE r

\* a variant that counts the items from 1 in the trace line
manyTraceFromOne(i, v) ==
    Cat(<<"", "when attempting to decode the item at index " \o ToString(i + 1) \o " of", "">>,
        toDebugString(v))

manyTrace(i, v) ==
    Cat(<<"", "when attempting to decode the item at index " \o ToString(i) \o " of", "">>,
        toDebugString(v))

RECURSIVE manyLoopKeepsItem(_, _, _, _, _)
\* a variant that stores the item of the input, not the result of the child
manyLoopKeepsItem(dec, v, i, arr, st) ==
    IF i < Len(v.items)
    THEN LET r == decodeInternal(dec.child, v.items[i + 1], st)
         IN  IF r.exc # "none" THEN r
             ELSE IF isOk(r.res)
             THEN manyLoopKeepsItem(dec, v, i + 1,
                                    [arr EXCEPT !.items[i + 1] = v.items[i + 1]],
                                    Wrote(r.st, arr.id))
             ELSE IF ~Fits(r.st, 1) THEN Raise("RangeError", r.st)
             ELSE IF StringifyRaises(v) THEN Raise("TypeError", r.st)
             ELSE Step(err(Cat(r.res.msg, manyTrace(i, v)), r.res.meta), r.st)
    ELSE Result(ok(arr), st)

RECURSIVE manyLoop(_, _, _, _, _)
\* for (var i=0; i<value.length; i++), with i counted from 0
manyLoop(dec, v, i, arr, st) ==
    IF i < Len(v.items)
    THEN LET r == decodeInternal(dec.child, v.items[i + 1], st)
         IN  IF r.exc # "none" THEN r
             ELSE IF isOk(r.res)
             THEN manyLoop(dec, v, i + 1, [arr EXCEPT !.items[i + 1] = r.res.value],
                           Wrote(r.st, arr.id))
             ELSE IF ~Fits(r.st, 1) THEN Raise("RangeError", r.st)
             ELSE IF StringifyRaises(v) THEN Raise("TypeError", r.st)
             ELSE Step(err(Cat(r.res.msg, manyTrace(i, v)), r.res.meta), r.st)
    ELSE Result(ok(arr), st)

\* a variant that stores the results in the input array
caseMANYInPlace(dec, v, st) ==
    IF ~IsArray(v)
    THEN errExpected("an array", v, st)
    ELSE manyLoop(dec, v, 0, v, st)

caseMANY(dec, v, st) ==
    IF ~IsArray(v)
    THEN errExpected("an array", v, st)
    ELSE manyLoop(dec, v, 0,
                  Arr(st.next, [j \in 1..Len(v.items) |-> Undefined]), Alloc(st))

oneOfHeader ==
    <<"oneOf failed, because none of its child decoders were successful in decoding the value, here is a list of all errors:", "", "">>

\* what the body of the second loop adds to str for errs[err_i], err_i from 0
oneOfSection(errs, err_i) ==
    LET error == errs[err_i + 1]
        head == Cat(T(IF err_i = 0 THEN "+" ELSE "#"),
                    <<"-- Decoder at index " \o ToString(err_i) \o " reported:", "|", "|">>)
        body == Cat(IndentAfterNewline(Cat(NL, error.msg), "|    "), <<"", "|">>)
    IN  Cat(Cat(head, body),
            IF err_i < Len(errs) - 1 THEN <<"", "|", "">> ELSE T(""))

\* a variant that reports the last error only
oneOfMessageLastOnly(errs, err_i, str) ==
    IF Len(errs) = 0 THEN str
    ELSE Cat(str, oneOfSection(errs, Len(errs) - 1))

RECURSIVE oneOfMessage(_, _, _)
\* for (var err_i = 0; err_i < errs.length; err_i++) str += ...
oneOfMessage(errs, err_i, str) ==
    IF err_i < Len(errs)
    THEN oneOfMessage(errs, err_i + 1, Cat(str, oneOfSection(errs, err_i)))
    ELSE str

\* the statements after the first loop
oneOfFailure(errs) ==
    err(Cat(oneOfMessage(errs, 0, oneOfHeader), <<"", "^", "">>), Undefined)

RECURSIVE oneOfLoopFromRight(_, _, _, _, _)
\* a variant that tries the decoders from the last to the first
oneOfLoopFromRight(decs, v, i, errs, st) ==
    IF i < Len(decs)
    THEN LET r == decodeInternal(decs[Len(decs) - i], v, st)
         IN  IF r.exc # "none" THEN r
             ELSE IF isOk(r.res) THEN r
             ELSE oneOfLoopFromRight(decs, v, i + 1, Append(errs, r.res), r.st)
    ELSE Result(oneOfFailure(errs), st)

RECURSIVE oneOfLoopCatches(_, _, _, _, _)
\* a variant that takes an exception raised in an alternative for a failure
\* of that alternative
oneOfLoopCatches(decs, v, i, errs, st) ==
    IF i < Len(decs)
    THEN LET r == decodeInternal(decs[i + 1], v, st)
         IN  IF r.exc = "none" /\ isOk(r.res) THEN r
             ELSE oneOfLoopCatches(decs, v, i + 1, Append(errs, r.res), r.st)
    ELSE Result(oneOfFailure(errs), st)

RECURSIVE oneOfLoop(_, _, _, _, _)
\* for (var i=0; i<decs.length; i++), with i counted from 0
oneOfLoop(decs, v, i, errs, st) ==
    IF i < Len(decs)
    THEN LET r == decodeInternal(decs[i + 1], v, st)
         IN  IF r.exc # "none" THEN r
             ELSE IF isOk(r.res) THEN r
             ELSE oneOfLoop(decs, v, i + 1, Append(errs, r.res), r.st)
    ELSE Result(oneOfFailure(errs), st)

caseONE_OF(dec, v, st) == oneOfLoop(dec.decoders, v, 0, <<>>, st)

caseUNKNOWN(dec, v, st) == Result(ok(v), st)

RECURSIVE dictLoopAll(_, _, _, _, _)
\* a variant that interprets the values of the remaining keys before it
\* returns the first failure
dictLoopAll(dec, v, i, res, st) ==
    IF i < Len(OwnKeys(v))
    THEN LET key == OwnKeys(v)[i + 1]
             child_value == decodeInternal(dec.child, Get(v, key), st)
         IN  IF child_value.exc # "none" THEN child_value
             ELSE IF isOk(child_value.res)
             THEN dictLoopAll(dec, v, i + 1, SetProp(res, key, child_value.res.value),
                              Wrote(child_value.st, res.id))
             ELSE [child_value EXCEPT
                      !.st = dictLoopAll(dec, v, i + 1, res, child_value.st).st]
    ELSE Result(ok(res), st)

\* the lines a trace of the DICT case would add
dictTrace(key, v) ==
    Cat(<<"", "when attempting to decode the value of the key '" \o key \o "' of", "">>,
        toDebugString(v))

RECURSIVE dictLoopKeyInfo(_, _, _, _, _)
\* a variant that wraps the failure of the child in the key and the container
dictLoopKeyInfo(dec, v, i, res, st) ==
    IF i < Len(OwnKeys(v))
    THEN LET key == OwnKeys(v)[i + 1]
             child_value == decodeInternal(dec.child, Get(v, key), st)
         IN  IF child_value.exc # "none" THEN child_value
             ELSE IF isOk(child_value.res)
             THEN dictLoopKeyInfo(dec, v, i + 1, SetProp(res, key, child_value.res.value),
                                  Wrote(child_value.st, res.id))
             ELSE IF ~Fits(child_value.st, 1) THEN Raise("RangeError", child_value.st)
             ELSE IF StringifyRaises(v) THEN Raise("TypeError", child_value.st)
             ELSE Step(err(Cat(child_value.res.msg, dictTrace(key, v)),
                           child_value.res.meta), child_value.st)
    ELSE Result(ok(res), st)

RECURSIVE dictLoop(_, _, _, _, _)
\* for (var key in value), i the number of keys already visited
dictLoop(dec, v, i, res, st) ==
    IF i < Len(OwnKeys(v))
    THEN LET key == OwnKeys(v)[i + 1]
             child_value == decodeInternal(dec.child, Get(v, key), st)
         IN  IF child_value.exc # "none" THEN child_value
             ELSE IF isOk(child_value.res)
             THEN dictLoop(dec, v, i + 1, SetProp(res, key, child_value.res.value),
                           Wrote(child_value.st, res.id))
             ELSE child_value
    ELSE Result(ok(res), st)

\* a variant that writes the results into the input object
caseDICTInPlace(dec, v, st) ==
    IF TypeOf(v) # "object" \/ v.t = "null"
    THEN errExpected("an object", v, st)
    ELSE IF v.t = "obj" THEN dictLoop(dec, v, 0, v, st)
    ELSE dictLoop(dec, v, 0, Obj(st.next, "Object", <<>>, <<>>), Alloc(st))

caseDICT(dec, v, st) ==
    IF TypeOf(v) # "object" \/ v.t = "null"
    THEN errExpected("an object", v, st)
    ELSE dictLoop(dec, v, 0, Obj(st.next, "Object", <<>>, <<>>), Alloc(st))

hint ==
    "Did you forget to wrap your decoder in 'Decode.field'? This is not done automatically for you when using 'Decode.object' or 'Decode.instance'. Here's the actual error: "

RECURSIVE decodeObjLoopScoped(_, _, _, _, _)
\* a variant that interprets a layout child against value[key] when the
\* input has the layout key
decodeObjLoopScoped(layout, obj, v, i, st) ==
    IF i < Len(layout)
    THEN LET key == layout[i + 1].key
             child == layout[i + 1].child
             scoped == IF v.t \in {"obj", "arr"} /\ HasKey(v, key) THEN Get(v, key) ELSE v
             r == decodeInternal(child, scoped, st)
         IN  IF r.exc # "none" THEN r
             ELSE IF isOk(r.res)
             THEN decodeObjLoopScoped(layout, SetProp(obj, key, r.res.value), v, i + 1,
                                      Wrote(r.st, obj.id))
             ELSE IF r.res.meta # Num(FIELD_ERROR_META)
             THEN Result(err(Cat(T(hint), r.res.msg), Num(FIELD_ERROR_META)), r.st)
             ELSE r
    ELSE Result(ok(obj), st)

RECURSIVE decodeObjLoop(_, _, _, _, _)
\* for (var key in layout), i the number of layout keys already visited
decodeObjLoop(layout, obj, v, i, st) ==
    IF i < Len(layout)
    THEN LET key == layout[i + 1].key
             child == layout[i + 1].child
             r == decodeInternal(child, v, st)
         IN  IF r.exc # "none" THEN r
             ELSE IF isOk(r.res)
             THEN decodeObjLoop(layout, SetProp(obj, key, r.res.value), v, i + 1,
                                Wrote(r.st, obj.id))
             ELSE IF r.res.meta # Num(FIELD_ERROR_META)
             THEN Result(err(Cat(T(hint), r.res.msg), Num(FIELD_ERROR_META)), r.st)
             ELSE r
    ELSE Result(ok(obj), st)

decodeObj(layout, obj, v, st) == decodeObjLoop(layout, obj, v, 0, st)

caseOBJECT(dec, v, st) ==
    decodeObj(dec.layout, Obj(st.next, "Object", <<>>, <<>>), v, Alloc(st))

\* a variant that builds every result on one instance made beforehand
caseINSTANCEShared(dec, v, st) ==
    decodeObj(dec.layout, Obj(0, dec.ctor.name, <<>>, <<>>), v,
              Log(st, Called(dec.ctor, Undefined)))

caseINSTANCE(dec, v, st) ==
    LET c == Call(dec.ctor, Undefined, st)
    IN  IF c.exc # "none" THEN Raise(c.exc, c.st)
        ELSE decodeObj(dec.layout, c.ret, v, c.st)

\* switch (decoder.tag), in the frame of this call
decodeInternalSwitch(dec, v, st) ==
    CASE dec.tag = NUMBER -> caseNUMBER(dec, v, st)
      [] dec.tag = INTEGER -> caseINTEGER(dec, v, st)
      [] dec.tag = STRING_TAG -> caseSTRING(dec, v, st)
      [] dec.tag = FIELD -> caseFIELD(dec, v, st)
      [] dec.tag = BOOL -> caseBOOL(dec, v, st)
      [] dec.tag = SUCCEED -> caseSUCCEED(dec, v, st)
      [] dec.tag = FAIL -> caseFAIL(dec, v, st)
      [] dec.tag = LAZY -> caseLAZY(dec, v, st)
      [] dec.tag = MAP -> caseMAP(dec, v, st)
      [] dec.tag = AND_THEN -> caseAND_THEN(dec, v, st)
      [] dec.tag = MANY -> caseMANY(dec, v, st)
      [] dec.tag = OBJECT -> caseOBJECT(dec, v, st)
      [] dec.tag = INSTANCE_TAG -> caseINSTANCE(dec, v, st)
      [] dec.tag = ONE_OF -> caseONE_OF(dec, v, st)
      [] dec.tag = UNKNOWN -> caseUNKNOWN(dec, v, st)
      [] dec.tag = DICT -> caseDICT(dec, v, st)

\* a call of decodeInternal: when the stack holds no further frame the
\* engine raises a RangeError, which unwinds every enclosing step
decodeInternal(dec, v, st0) ==
    IF ~Fits(st0, 2) THEN Raise("RangeError", st0)
    ELSE Leave(decodeInternalSwitch(dec, v, Enter(Log(st0, Interpret(dec, v)))),
               st0.depth)

(***************************************************************************)
(* decode: the value of an Ok, or an Error carrying the message of the     *)
(* Err.  An exception of a callback leaves decode as it is.                *)
(***************************************************************************)
\* a variant that returns undefined where decode throws the Error
decodeNoThrow(dec, v, st) ==
    LET r == decodeInternal(dec, v, st)
    IN  IF r.exc # "none"
        THEN [kind |-> "throw", error |-> r.exc, message |-> T(""), st |-> r.st]
        ELSE IF isOk(r.res)
        THEN [kind |-> "return", value |-> r.res.value, st |-> r.st]
        ELSE [kind |-> "return", value |-> Undefined, st |-> r.st]

\* the statements of decode that follow the call of decodeInternal
decodeOutcome(r) ==
    IF r.exc # "none"
    THEN [kind |-> "throw", error |-> r.exc, message |-> T(""), st |-> r.st]
    ELSE IF isOk(r.res)
    THEN [kind |-> "return", value |-> r.res.value, st |-> r.st]
    ELSE [kind |-> "throw", error |-> "Error", message |-> r.res.msg, st |-> r.st]

decode(dec, v, st) == decodeOutcome(decodeInternal(dec, v, st))

(***************************************************************************)
(* The inputs of the model.                                                *)
(***************************************************************************)
Keys == {"a", "b"}

\* a plain object literal and an array literal, not yet allocated
O(keys, vals) == Obj(0, "Object", keys, vals)
A(items) == Arr(0, items)

\* the nodes of a tree: { a: value, b: [nodes] }
Node(n, nodes) == O(<<"a", "b">>, <<Num(n), A(nodes)>>)
Leaf(v) == O(<<"a", "b">>, <<v, A(<<>>)>>)

Values ==
    { Undefined, Null, Bool(TRUE), Str("x"), Symbol("s"),
      Num(101), Num(42), Tenths(425), NaN, Infinity, NegInfinity,
      MAX_SAFE_INTEGER, MIN_SAFE_INTEGER,
      A(<<>>), A(<<Num(1), Str("x")>>), A(<<Num(1), Num(2), Str("x"), Null>>),
      O(<<>>, <<>>),
      O(<<"a", "b">>, <<Num(42), Num(7)>>),
      O(<<"a">>, <<Undefined>>),
      O(<<"b", "a">>, <<Str("x"), Num(7)>>),
      O(<<"a">>, <<O(<<>>, <<>>)>>),
      O(<<"a">>, <<O(<<"b">>, <<Str("x")>>)>>),
      O(<<"a">>, <<O(<<"b">>, <<O(<<"a">>, <<Num(42)>>)>>)>>),
      Node(42, <<Leaf(Num(1)), Leaf(Num(2))>>),
      Node(42, <<Node(1, <<Leaf(Str("x"))>>)>>) }

\* inputs that hold a BigInt: by itself, as a property value, and inside a
\* property value
BigInts ==
    { BigInt(1),
      O(<<"a", "b">>, <<Str("x"), BigInt(1)>>),
      O(<<"a">>, <<O(<<"b">>, <<BigInt(1)>>)>>),
      O(<<"a">>, <<O(<<"b">>, <<O(<<"a">>, <<BigInt(1)>>)>>)>>) }

RECURSIVE LabelAll(_, _, _)
\* the input as the caller allocated it: every container gets an identity,
\* the outer container first
Label(v, n) ==
    IF v.t = "arr"
    THEN LET l == LabelAll(v.items, 1, n + 1)
         IN  [v |-> [v EXCEPT !.id = n, !.items = l.vs], next |-> l.next]
    ELSE IF v.t = "obj"
    THEN LET l == LabelAll(v.vals, 1, n + 1)
         IN  [v |-> [v EXCEPT !.id = n, !.vals = l.vs], next |-> l.next]
    ELSE [v |-> v, next |-> n]

LabelAll(vs, i, n) ==
    IF i > Len(vs) THEN [vs |-> <<>>, next |-> n]
    ELSE LET h == Label(vs[i], n)
             t == LabelAll(vs, i + 1, h.next)
         IN  [vs |-> <<h.v>> \o t.vs, next |-> t.next]

(***************************************************************************)
(* JSON text, for decodeString.  A text is the sequence of its characters; *)
(* the characters of a string literal between its quotes are one element   *)
(* of the sequence.  The texts of the model have no white space, no        *)
(* exponents, no escapes, and numbers of at most one decimal.              *)
(***************************************************************************)
RECURSIVE IntDigits(_)
\* the decimal digits of a natural number
IntDigits(n) == IF n < 10 THEN <<n>> ELSE Append(IntDigits(n \div 10), n % 10)

DigitChars(ds) == [i \in 1..Len(ds) |-> ToString(ds[i])]

\* a number as JSON.stringify writes it, character by character
NumberChars(v) ==
    IF v.k = "big" THEN (IF v.neg THEN <<"-">> ELSE <<>>) \o DigitChars(v.digits)
    ELSE IF v.k # "fin" THEN <<"n", "u", "l", "l">>
    ELSE LET a == IF v.m < 0 THEN 0 - v.m ELSE v.m
         IN  (IF v.m < 0 THEN <<"-">> ELSE <<>>)
             \o DigitChars(IntDigits(a \div 10))
             \o (IF a % 10 = 0 THEN <<>> ELSE <<".", ToString(a % 10)>>)

StringChars(str) == <<"\"">> \o (IF str = "" THEN <<>> ELSE <<str>>) \o <<"\"">>

RECURSIVE ValueChars(_)
RECURSIVE ItemChars(_, _)
RECURSIVE MemberChars(_, _, _)

\* the items of an array from index i, separated by commas; undefined and
\* symbols are written as null
ItemChars(items, i) ==
    IF i > Len(items) THEN <<>>
    ELSE (IF i > 1 THEN <<",">> ELSE <<>>)
         \o (IF items[i].t \in {"undefined", "symbol"} THEN <<"n", "u", "l", "l">>
             ELSE ValueChars(items[i]))
         \o ItemChars(items, i + 1)

\* the written properties w[j..] of an object, separated by commas
MemberChars(v, w, j) ==
    IF j > Len(w) THEN <<>>
    ELSE (IF j > 1 THEN <<",">> ELSE <<>>)
         \o StringChars(v.keys[w[j]]) \o <<":">> \o ValueChars(v.vals[w[j]])
         \o MemberChars(v, w, j + 1)

ValueChars(v) ==
    CASE v.t = "null" -> <<"n", "u", "l", "l">>
      [] v.t = "bool" -> (IF v.b THEN <<"t", "r", "u", "e">>
                          ELSE <<"f", "a", "l", "s", "e">>)
      [] v.t = "num" -> NumberChars(v)
      [] v.t = "str" -> StringChars(v.s)
      [] v.t = "arr" -> <<"[">> \o ItemChars(v.items, 1) \o <<"]">>
      [] v.t = "obj" -> <<"{">> \o MemberChars(v, Written(v, 1), 1) \o <<"}">>

\* the text JSON.parse gets from JSON.stringify(value): JSON.stringify
\* returns undefined for undefined and for a symbol, which JSON.parse
\* reads as the text undefined
JSONstringify(v) ==
    IF v.t \in {"undefined", "symbol"}
    THEN <<"u", "n", "d", "e", "f", "i", "n", "e", "d">>
    ELSE ValueChars(v)

\* JSON.parse(text): a recursive descent over the characters; i is the
\* position of the next character
IsDigit(c) == c \in {"0", "1", "2", "3", "4", "5", "6", "7", "8", "9"}

DigitOf(c) ==
    CASE c = "0" -> 0 [] c = "1" -> 1 [] c = "2" -> 2 [] c = "3" -> 3
      [] c = "4" -> 4 [] c = "5" -> 5 [] c = "6" -> 6 [] c = "7" -> 7
      [] c = "8" -> 8 [] c = "9" -> 9

NoParse == [ok |-> FALSE, v |-> Undefined, i |-> 0]
Parsed(v, i) == [ok |-> TRUE, v |-> v, i |-> i]

\* the character at position i, the empty string past the end of the text
CharAt(t, i) == IF i <= Len(t) THEN t[i] ELSE ""

RECURSIVE ReadDigits(_, _)
ReadDigits(t, i) ==
    IF IsDigit(CharAt(t, i)) THEN <<DigitOf(t[i])>> \o ReadDigits(t, i + 1) ELSE <<>>

RECURSIVE DigitsValue(_, _)
\* the number written by the digits ds[1..n]
DigitsValue(ds, n) == IF n = 0 THEN 0 ELSE 10 * DigitsValue(ds, n - 1) + ds[n]

\* a number: an integer of more than 8 digits is kept by its digits
ParseNumber(t, i) ==
    LET neg == CharAt(t, i) = "-"
        j == IF neg THEN i + 1 ELSE i
        int == IF CharAt(t, j) = "0" THEN <<0>> ELSE ReadDigits(t, j)
        k == j + Len(int)
        frac == CharAt(t, k) = "."
    IN  IF Len(int) = 0 THEN NoParse
        ELSE IF frac /\ ~IsDigit(CharAt(t, k + 1)) THEN NoParse
        ELSE IF Len(int) > 8 THEN Parsed(Big(neg, int), k)
        ELSE LET m == 10 * DigitsValue(int, Len(int))
                      + (IF frac THEN DigitOf(t[k + 1]) ELSE 0)
             IN  Parsed(Tenths(IF neg THEN 0 - m ELSE m), IF frac THEN k + 2 ELSE k)

ParseString(t, i) ==
    IF CharAt(t, i) # "\"" THEN NoParse
    ELSE IF CharAt(t, i + 1) = "\"" THEN Parsed(Str(""), i + 2)
    ELSE IF CharAt(t, i + 1) # "" /\ CharAt(t, i + 2) = "\""
    THEN Parsed(Str(t[i + 1]), i + 3)
    ELSE NoParse

ParseLiteral(t, i, chars, v) ==
    IF i + Len(chars) - 1 <= Len(t) /\ SubSeq(t, i, i + Len(chars) - 1) = chars
    THEN Parsed(v, i + Len(chars))
    ELSE NoParse

RECURSIVE ParseValue(_, _)
RECURSIVE ParseItems(_, _, _)
RECURSIVE ParseMembers(_, _, _)

ParseItems(t, i, items) ==
    LET r == ParseValue(t, i)
    IN  IF ~r.ok THEN NoParse
        ELSE IF CharAt(t, r.i) = "," THEN ParseItems(t, r.i + 1, Append(items, r.v))
        ELSE IF CharAt(t, r.i) = "]" THEN Parsed(A(Append(items, r.v)), r.i + 1)
        ELSE NoParse

ParseMembers(t, i, obj) ==
    LET k == ParseString(t, i)
    IN  IF ~k.ok \/ CharAt(t, k.i) # ":" THEN NoParse
        ELSE LET r == ParseValue(t, k.i + 1)
             IN  IF ~r.ok THEN NoParse
                 ELSE IF CharAt(t, r.i) = ","
                 THEN ParseMembers(t, r.i + 1, SetProp(obj, k.v.s, r.v))
                 ELSE IF CharAt(t, r.i) = "}"
                 THEN Parsed(SetProp(obj, k.v.s, r.v), r.i + 1)
                 ELSE NoParse

ParseValue(t, i) ==
    LET c == CharAt(t, i)
    IN  CASE c = "n" -> ParseLiteral(t, i, <<"n", "u", "l", "l">>, Null)
          [] c = "t" -> ParseLiteral(t, i, <<"t", "r", "u", "e">>, Bool(TRUE))
          [] c = "f" -> ParseLiteral(t, i, <<"f", "a", "l", "s", "e">>, Bool(FALSE))
          [] c = "\"" -> ParseString(t, i)
          [] c = "-" \/ IsDigit(c) -> ParseNumber(t, i)
          [] c = "[" -> IF CharAt(t, i + 1) = "]" THEN Parsed(A(<<>>), i + 2)
                        ELSE ParseItems(t, i + 1, <<>>)
          [] c = "{" -> IF CharAt(t, i + 1) = "}" THEN Parsed(O(<<>>, <<>>), i + 2)
                        ELSE ParseMembers(t, i + 1, O(<<>>, <<>>))
          [] OTHER -> NoParse

\* the whole text is one value, or the parse fails (a SyntaxError)
JSONparse(t) ==
    LET r == ParseValue(t, 1)
    IN  IF r.ok /\ r.i = Len(t) + 1 THEN r ELSE NoParse

\* a variant that decodes undefined when the text cannot be parsed
decodeStringLenient(dec, str, st) ==
    LET p == JSONparse(str)
        val == Label(IF p.ok THEN p.v ELSE Undefined, st.next)
    IN  decode(dec, val.v, [st EXCEPT !.next = val.next])

\* decodeString(decoder, str): the parsed value is newly allocated
decodeString(dec, str, st) ==
    LET p == JSONparse(str)
    IN  IF ~p.ok
        THEN [kind |-> "throw", error |-> "SyntaxError", message |-> T(""), st |-> st]
        ELSE LET val == Label(p.v, st.next)
             IN  decode(dec, val.v, [st EXCEPT !.next = val.next])

Defaults == {Num(0)}

\* texts that are not JSON
Malformed == { <<>>, <<"[", "1", ",", "]">> }

\* the values whose text is decoded
TextValues ==
    { Undefined, Bool(TRUE), Str("x"), Num(42), Tenths(425), NaN, MAX_SAFE_INTEGER,
      A(<<Num(1), Str("x")>>),
      O(<<"a", "b">>, <<Num(42), Num(7)>>),
      O(<<"a">>, <<Undefined>>),
      O(<<"a">>, <<O(<<"b">>, <<Str("x")>>)>>) }

\* the texts given to decodeString: what JSON.stringify makes of the values,
\* and texts that are not JSON
Texts == {JSONstringify(x) : x \in TextValues} \cup Malformed

\* the values given to succeed
Constants == {Num(42), Num(0)}

\* the messages given to fail
Messages == {T("fail"), T("too small")}

\* the functions given to andThen
AndThenFns == {[name |-> "big"], [name |-> "response", d |-> [tag |-> INTEGER]]}

Primitives == {string, number, integer, bool, unknown}

\* the property path a -> b -> a -> ... of the nested inputs, and its prefixes
RECURSIVE FullPath(_)
FullPath(n) ==
    IF n = 0 THEN <<>>
    ELSE Append(FullPath(n - 1), IF n % 2 = 1 THEN "a" ELSE "b")

Paths == {FullPath(n) : n \in 0..MaxPath}

\* the decoders that stand beside the decoder under construction in a list
\* of alternatives or in a layout
Siblings == <<field("b", string), integer, unknown, fail(T("no"))>>

\* seq with x inserted after its first i elements
InsertAt(seq, i, x) == SubSeq(seq, 1, i) \o <<x>> \o SubSeq(seq, i + 1, Len(seq))

\* the lists of alternatives built around a decoder d
Lists(d) ==
    {<<>>, <<d>>}
    \cup {InsertAt(SubSeq(Siblings, 1, MaxList - 1), i, d) : i \in 0..(MaxList - 1)}

\* the layouts built around a decoder d
Layouts(d) ==
    { <<Prop("a", d)>>,
      <<Prop("a", d), Prop("b", Siblings[1])>>,
      <<Prop("b", Siblings[1]), Prop("a", d)>> }

\* a layout whose only child, under the key b, is integer
Inner == object(<<Prop("b", integer)>>)

\* decoders a caller builds by nesting the constructors: a decoder that
\* refers to itself, children with callbacks inside many, dict and object,
\* callbacks that raise inside oneOf and optional, and an object inside
\* each of the other layers, under an object
Nested ==
    { Tree_decoder,
      Loop_decoder,
      LoopThen_decoder,
      many(lazy([name |-> "const", d |-> integer])),
      many(map([name |-> "times10"], integer)),
      dict(map([name |-> "times10"], integer)),
      object(<<Prop("a", field("a", map([name |-> "times10"], integer))),
               Prop("b", field("b", lazy([name |-> "const", d |-> string])))>>),
      oneOf(<<andThen([name |-> "big"], number), succeed(Num(0))>>),
      field("a", optional(Num(0), andThen([name |-> "big"], number))),
      many(optional(Num(0), andThen([name |-> "big"], number))),
      object(<<Prop("a", optional(Num(0), map([name |-> "times10"], unknown)))>>),
      object(<<Prop("a", field("a", integer))>>),
      dict(Inner),
      dict(field("b", integer)),
      object(<<Prop("a", field("a", Inner))>>),
      object(<<Prop("a", many(Inner))>>),
      object(<<Prop("a", dict(Inner))>>),
      object(<<Prop("a", lazy([name |-> "const", d |-> Inner]))>>),
      object(<<Prop("a", map([name |-> "times10"], Inner))>>),
      object(<<Prop("a", andThen([name |-> "big"], Inner))>>),
      object(<<Prop("a", oneOf(<<Inner, fail(T("no"))>>))>>),
      instance([name |-> "User"], <<Prop("a", oneOf(<<field("a", Inner)>>))>>) }

\* the values a caller decodes between two decodes of one value
Others == {Str("x"), A(<<Num(1), Str("x")>>)}

NoResult == [kind |-> "none"]

(***************************************************************************)
(* The program: a caller builds a decoder with the constructors and        *)
(* decodes a value with it.  made records the last constructor call, heap  *)
(* the identity of the next allocation, base its value when the            *)
(* interpretation of the last decode began, call the exported function     *)
(* that was called last.                                                   *)
(***************************************************************************)
Init ==
    /\ \/ /\ decoder \in Primitives
          /\ made = [op |-> "primitive"]
       \/ \E v \in Constants :
             /\ decoder = succeed(v)
             /\ made = [op |-> "succeed", val |-> v]
       \/ \E m \in Messages :
             /\ decoder = fail(m)
             /\ made = [op |-> "fail", message |-> m]
    /\ wraps = 0
    /\ value = Undefined
    /\ result = NoResult
    /\ prev = NoResult
    /\ heap = 1
    /\ base = 1
    /\ pc = "build"
    /\ call = [fn |-> "none"]

CanWrap == pc = "build" /\ wraps < MaxWraps

Built(d, m) ==
    /\ decoder' = d
    /\ made' = m
    /\ wraps' = wraps + 1
    /\ UNCHANGED <<value, result, prev, heap, base, pc, call>>

Field ==
    /\ CanWrap
    /\ \E k \in Keys :
          Built(field(k, decoder), [op |-> "field", key |-> k, child |-> decoder])

OptionalField ==
    /\ CanWrap
    /\ \E k \in Keys, v \in Defaults :
          Built(optionalField(k, v, decoder),
                [op |-> "optionalField", key |-> k, val |-> v, child |-> decoder])

At ==
    /\ CanWrap
    /\ \E p \in Paths :
          Built(at(p, decoder), [op |-> "at", path |-> p, child |-> decoder])

OptionalAt ==
    /\ CanWrap
    /\ \E p \in Paths, v \in Defaults :
          Built(optionalAt(p, v, decoder),
                [op |-> "optionalAt", path |-> p, val |-> v, child |-> decoder])

Object ==
    /\ CanWrap
    /\ \E l \in Layouts(decoder) :
          Built(object(l), [op |-> "object", layout |-> l, child |-> decoder])

Instance ==
    /\ CanWrap
    /\ \E l \in Layouts(decoder) :
          Built(instance([name |-> "User"], l),
                [op |-> "instance", ctor |-> [name |-> "User"], layout |-> l,
                 child |-> decoder])

Many ==
    /\ CanWrap
    /\ Built(many(decoder), [op |-> "many", child |-> decoder])

Dict ==
    /\ CanWrap
    /\ Built(dict(decoder), [op |-> "dict", child |-> decoder])

Map ==
    /\ CanWrap
    /\ Built(map([name |-> "times10"], decoder),
             [op |-> "map", fn |-> [name |-> "times10"], child |-> decoder])

AndThen ==
    /\ CanWrap
    /\ \E fn \in AndThenFns :
          Built(andThen(fn, decoder), [op |-> "andThen", fn |-> fn, child |-> decoder])

Lazy ==
    /\ CanWrap
    /\ Built(lazy([name |-> "const", d |-> decoder]),
             [op |-> "lazy", fn |-> [name |-> "const", d |-> decoder],
              child |-> decoder])

OneOf ==
    /\ CanWrap
    /\ \E l \in Lists(decoder) :
          Built(oneOf(l), [op |-> "oneOf", decoders |-> l, child |-> decoder])

Optional ==
    /\ CanWrap
    /\ \E v \in Defaults :
          Built(optional(v, decoder), [op |-> "optional", val |-> v, child |-> decoder])

\* decode(decoder, value), for a value the caller has just allocated
Decode ==
    /\ pc = "build"
    /\ \E v \in Values, stack \in Stacks :
          LET in == Label(v, heap)
              out == decode(decoder, in.v, Begin(in.next, stack))
          IN  /\ value' = in.v
              /\ base' = in.next
              /\ result' = out
              /\ heap' = result'.st.next
    /\ pc' = "decoded"
    /\ call' = [fn |-> "decode"]
    /\ UNCHANGED <<decoder, made, wraps, prev>>

\* decode(decoder, value) for a value that holds a BigInt
DecodeBigInt ==
    /\ pc = "build"
    /\ \E v \in BigInts, stack \in Stacks :
          LET in == Label(v, heap)
              out == decode(decoder, in.v, Begin(in.next, stack))
          IN  /\ value' = in.v
              /\ base' = in.next
              /\ result' = out
              /\ heap' = result'.st.next
    /\ pc' = "decoded"
    /\ call' = [fn |-> "decode"]
    /\ UNCHANGED <<decoder, made, wraps, prev>>

\* decodeString(decoder, str)
DecodeString ==
    /\ pc = "build"
    /\ \E str \in Texts, stack \in Stacks :
          LET in == Label(JSONparse(str).v, heap)
              out == decodeString(decoder, str, Begin(heap, stack))
          IN  /\ call' = [fn |-> "decodeString", str |-> str]
              /\ value' = in.v
              /\ base' = in.next
              /\ result' = out
              /\ heap' = result'.st.next
    /\ pc' = "decoded"
    /\ UNCHANGED <<decoder, made, wraps, prev>>

\* decode(decoder, value) once more, with the same decoder and value
DecodeAgain ==
    /\ pc \in {"decoded", "other"}
    /\ \E stack \in Stacks :
          LET out == decode(decoder, value, Begin(heap, stack))
          IN  /\ result' = out
              /\ heap' = result'.st.next
    /\ base' = heap
    /\ prev' = result
    /\ pc' = "again"
    /\ UNCHANGED <<decoder, made, wraps, value, call>>

Next ==
    \/ Field
    \/ OptionalField
    \/ At
    \/ OptionalAt
    \/ Object
    \/ Instance
    \/ Many
    \/ Dict
    \/ Map
    \/ AndThen
    \/ Lazy
    \/ OneOf
    \/ Optional
    \/ Decode

Spec == Init /\ [][Next]_vars

\* the same program, with decoders that are used a second time
NextAgain == Next \/ DecodeAgain

SpecAgain == Init /\ [][NextAgain]_vars

\* decode(decoder, v) for another value v, its outcome dropped, after the
\* decode of value
DecodeOther ==
    /\ pc = "decoded"
    /\ \E v \in Others, stack \in Stacks :
          LET in == Label(v, heap)
          IN  heap' = decode(decoder, in.v, Begin(in.next, stack)).st.next
    /\ pc' = "other"
    /\ UNCHANGED <<decoder, made, wraps, value, result, prev, base, call>>

\* a caller whose decoder is built by nested constructor calls, and who
\* uses it several times
InitNested ==
    /\ decoder \in Nested
    /\ made = [op |-> "nested"]
    /\ wraps = 0
    /\ value = Undefined
    /\ result = NoResult
    /\ prev = NoResult
    /\ heap = 1
    /\ base = 1
    /\ pc = "build"
    /\ call = [fn |-> "none"]

NextNested == Decode \/ DecodeOther \/ DecodeAgain

SpecNested == InitNested /\ [][NextNested]_vars

\* the decoders of Nested, the inputs that hold a BigInt included
NextRaises == Decode \/ DecodeBigInt \/ DecodeAgain

SpecRaises == InitNested /\ [][NextRaises]_vars

\* the same program, with callers that decode JSON text
NextString == Next \/ DecodeString

SpecString == Init /\ [][NextString]_vars

(***************************************************************************)
(* Definitions used to state the properties.                               *)
(***************************************************************************)
\* the state in which the last decode began
Start == Begin(base, result.st.stack)

\* decode(d, x) from the state in which the last decode began
Run(d, x) == decode(d, x, Start)

Decoded == pc \in {"decoded", "again"}

Returns(out) == out.kind = "return"
Rejects(out) == out.kind = "throw" /\ out.error = "Error"

\* a non-null value of type object
IsObject(x) == x.t \in {"obj", "arr"}

RECURSIVE AfterEach(_, _, _, _)
\* the interpreter state after decs[1..n] were interpreted once each, in
\* order, against x, starting in st
AfterEach(decs, n, x, st) ==
    IF n = 0 THEN st
    ELSE decodeInternal(decs[n], x, AfterEach(decs, n - 1, x, st)).st

\* C1: decode(optional(v, d), i) returns what decode(d, i) returns when d
\* accepts i and returns v when d rejects i, never raising on a rejection;
\* the decoder optional builds is oneOf([d, succeed(v)]).
C1_Optional ==
    (Decoded /\ made.op = "optional") =>
        LET r == Run(made.child, value)
        IN  /\ decoder = oneOf(<<made.child, succeed(made.val)>>)
            /\ Returns(r) => (Returns(result) /\ result.value = r.value)
            /\ Rejects(r) => (Returns(result) /\ result.value = made.val)

C1_Witness ==
    /\ Decoded
    /\ made.op = "optional"
    /\ Rejects(Run(made.child, value))
    /\ Returns(result)
    /\ result.value = made.val

\* C2: when some decoder of the list accepts the input and every decoder
\* before the first such decoder rejects it, decode(oneOf(list), input)
\* returns the result of that decoder, and the calls of the interpretation
\* are: the decoders before it interpreted once each, in order, against the
\* input, then that decoder, and nothing after it.
C2_OneOfLeftBiased ==
    (Decoded /\ made.op = "oneOf") =>
        \A k \in 1..Len(made.decoders) :
            (/\ Returns(Run(made.decoders[k], value))
             /\ \A j \in 1..(k - 1) : Rejects(Run(made.decoders[j], value)))
            => LET top == Log(Start, Interpret(decoder, value))
                   r == decodeInternal(made.decoders[k], value,
                                       AfterEach(made.decoders, k - 1, value, top))
               IN  /\ Returns(result)
                   /\ result.value = r.res.value
                   /\ result.st.calls = r.st.calls

\* two decoders of the list accept the input with different results, and a
\* decoder before them rejects it
C2_Witness ==
    /\ Decoded
    /\ made.op = "oneOf"
    /\ Len(made.decoders) >= 3
    /\ Rejects(Run(made.decoders[1], value))
    /\ Returns(Run(made.decoders[2], value))
    /\ Returns(Run(made.decoders[3], value))
    /\ Run(made.decoders[2], value).value # Run(made.decoders[3], value).value
    /\ Returns(result)
    /\ result.value = Run(made.decoders[2], value).value

\* the box of the failure message m of the decoder at index i (from 0)
Section(i, m) ==
    <<(IF i = 0 THEN "+" ELSE "#") \o "-- Decoder at index " \o ToString(i)
        \o " reported:", "|", "|">>
    \o [j \in 1..Len(m) |-> "|    " \o m[j]]
    \o <<"|">>

RECURSIVE Sections(_, _)
\* the boxes of msgs[i..], in order, one "|" line between two boxes
Sections(msgs, i) ==
    IF i > Len(msgs) THEN <<>>
    ELSE Section(i - 1, msgs[i])
         \o (IF i < Len(msgs) THEN <<"|">> ELSE <<>>)
         \o Sections(msgs, i + 1)

Boxed(msgs) ==
    <<oneOfHeader[1], "">>
    \o (IF Len(msgs) = 0 THEN <<"">> ELSE Sections(msgs, 1))
    \o <<"^", "">>

\* C3: when every decoder of the list rejects the input, decode raises one
\* failure whose message is the header followed, for each index in list
\* order, by one box labelled with the index that holds every line of the
\* failure message of the decoder at that index, and nothing else.
C3_OneOfAllFail ==
    (/\ Decoded
     /\ made.op = "oneOf"
     /\ \A j \in 1..Len(made.decoders) : Rejects(Run(made.decoders[j], value)))
    => /\ Rejects(result)
       /\ result.message =
             Boxed([j \in 1..Len(made.decoders) |->
                        Run(made.decoders[j], value).message])

\* three decoders reject the input with three different messages
C3_Witness ==
    /\ Decoded
    /\ made.op = "oneOf"
    /\ Len(made.decoders) >= 3
    /\ \A j \in 1..Len(made.decoders) : Rejects(Run(made.decoders[j], value))
    /\ \A i, j \in 1..Len(made.decoders) :
          i # j => Run(made.decoders[i], value).message
                   # Run(made.decoders[j], value).message
    /\ Len(Run(made.decoders[2], value).message) > 5
    /\ Rejects(result)

\* the index of the first layout child that rejects x, 0 when none does
RECURSIVE FirstRejecting(_, _, _)
FirstRejecting(layout, x, i) ==
    IF i > Len(layout) THEN 0
    ELSE IF Rejects(Run(layout[i].child, x)) THEN i
    ELSE FirstRejecting(layout, x, i + 1)

\* C4: when a layout child of object/instance fails, the message has the
\* misuse hint if and only if the failure did not come from a field or
\* optionalField step: the failure of a child that is a field(...) is
\* propagated as it is, the failure of a primitive child gets the hint.
C4_HintIffNotFromField ==
    (Decoded /\ made.op \in {"object", "instance"} /\ Rejects(result)) =>
        LET i == FirstRejecting(made.layout, value, 1)
            c == made.layout[i].child
            m == Run(c, value).message
        IN  /\ i > 0
            /\ c.tag = FIELD => result.message = m
            /\ c.tag \in {STRING_TAG, NUMBER, INTEGER, BOOL, FAIL}
                  => result.message = Cat(T(hint), m)

\* the lines the FIELD case adds to the message of a failed child
FieldContext(k, x) ==
    Cat(<<"", "when attempting to decode the field '" \o k \o "' of", "">>,
        toDebugString(x))

\* C5: decode(field(k, child), x) fails when x is not a non-null object and
\* when x has no key k; when x has key k it returns what child returns on
\* x[k], and when child rejects x[k] the message is child's message followed
\* by the line that names k and the dump of x.
C5_Field ==
    (Decoded /\ made.op = "field") =>
        IF ~IsObject(value) \/ ~HasKey(value, made.key)
        THEN Rejects(result)
        ELSE LET r == Run(made.child, Get(value, made.key))
             IN  /\ Returns(r) => (Returns(result) /\ result.value = r.value)
                 /\ Rejects(r) =>
                       /\ Rejects(result)
                       /\ result.message = Cat(r.message, FieldContext(made.key, value))

\* the child rejects the value of the key
C5_Witness ==
    /\ Decoded
    /\ made.op = "field"
    /\ IsObject(value)
    /\ HasKey(value, made.key)
    /\ Rejects(Run(made.child, Get(value, made.key)))
    /\ Rejects(result)

\* the two outcomes are the same value or the same failure
SameOutcome(o1, o2) ==
    /\ o1.kind = o2.kind
    /\ Returns(o1) => o1.value = o2.value
    /\ ~Returns(o1) => (o1.error = o2.error /\ o1.message = o2.message)

\* C6: on a non-null object without key k, optionalField(k, v, child)
\* returns v; on every other input its outcome is that of field(k, child):
\* a present value that child rejects, a present undefined included, is a
\* failure, and an input that is not a non-null object is a failure.
C6_OptionalField ==
    (Decoded /\ made.op = "optionalField") =>
        IF IsObject(value) /\ ~HasKey(value, made.key)
        THEN Returns(result) /\ result.value = made.val
        ELSE /\ SameOutcome(result, Run(field(made.key, made.child), value))
             /\ ~IsObject(value) => Rejects(result)
             /\ (IsObject(value) /\ Rejects(Run(made.child, Get(value, made.key))))
                   => Rejects(result)

\* the key is present with the value undefined, which the child rejects
C6_Witness ==
    /\ Decoded
    /\ made.op = "optionalField"
    /\ IsObject(value)
    /\ HasKey(value, made.key)
    /\ Get(value, made.key) = Undefined
    /\ Rejects(Run(made.child, Undefined))
    /\ Rejects(result)

RECURSIVE Nest(_, _)
\* field(k1, field(k2, ... field(kn, child)))
Nest(path, child) ==
    IF Len(path) = 0 THEN child
    ELSE field(Head(path), Nest(Tail(path), child))

\* C7: at([k1..kn], child) has the outcome of field(k1, field(k2, ...
\* field(kn, child))) on every input, and at([], child) is child.
C7_At ==
    (Decoded /\ made.op = "at") =>
        /\ decoder = Nest(made.path, made.child)
        /\ SameOutcome(result, Run(Nest(made.path, made.child), value))
        /\ Len(made.path) = 0 => decoder = made.child

\* a path of two different names leads to a leaf that the child accepts
C7_Witness ==
    /\ Decoded
    /\ made.op = "at"
    /\ Len(made.path) >= 2
    /\ made.path[1] # made.path[2]
    /\ Returns(result)

RECURSIVE Walk(_, _, _)
\* what following path[i..] from x reaches
Walk(x, path, i) ==
    IF i > Len(path) THEN [kind |-> "leaf", v |-> x]
    ELSE IF ~IsObject(x) THEN [kind |-> "notObject", v |-> x]
    ELSE IF ~HasKey(x, path[i]) THEN [kind |-> "missing", v |-> x]
    ELSE Walk(Get(x, path[i]), path, i + 1)

\* C8: for optionalAt(path, v, child): when an object reached along the
\* path lacks the next key the result is v, at whatever level; when every
\* key is present the result is that of child on the leaf, and a leaf that
\* child rejects is a failure; when a reached level is not a non-null object
\* decode fails.
C8_OptionalAt ==
    (Decoded /\ made.op = "optionalAt") =>
        LET w == Walk(value, made.path, 1)
        IN  CASE w.kind = "missing" -> Returns(result) /\ result.value = made.val
              [] w.kind = "notObject" -> Rejects(result)
              [] w.kind = "leaf" ->
                    LET r == Run(made.child, w.v)
                    IN  /\ Returns(r) => (Returns(result) /\ result.value = r.value)
                        /\ Rejects(r) => Rejects(result)

\* the first key is present and the second is missing
C8_Witness ==
    /\ Decoded
    /\ made.op = "optionalAt"
    /\ Len(made.path) >= 2
    /\ IsObject(value)
    /\ HasKey(value, made.path[1])
    /\ Walk(value, made.path, 1).kind = "missing"
    /\ Returns(result)
    /\ result.value = made.val

Children(layout) == [i \in 1..Len(layout) |-> layout[i].child]

\* C9: when every layout child accepts the whole input, object(layout)
\* returns a newly allocated plain object whose keys are the layout keys in
\* declaration order, each bound to the result of its child interpreted
\* against the whole input.
C9_Object ==
    (/\ Decoded
     /\ made.op = "object"
     /\ \A i \in 1..Len(made.layout) : Returns(Run(made.layout[i].child, value)))
    => /\ Returns(result)
       /\ result.value.t = "obj"
       /\ result.value.proto = "Object"
       /\ result.value.id >= base
       /\ result.value.keys = [i \in 1..Len(made.layout) |-> made.layout[i].key]
       /\ \A i \in 1..Len(made.layout) :
             LET top == Alloc(Log(Start, Interpret(decoder, value)))
                 r == decodeInternal(made.layout[i].child, value,
                                     AfterEach(Children(made.layout), i - 1, value, top))
             IN  /\ result.value.vals[i] = r.res.value
                 /\ \E e \in 1..Len(result.st.calls) :
                       result.st.calls[e] = Interpret(made.layout[i].child, value)

\* an object is built from an input that has a layout key: the child got
\* the whole input
C9_Witness ==
    /\ Decoded
    /\ made.op = "object"
    /\ Len(made.layout) = 2
    /\ IsObject(value)
    /\ HasKey(value, made.layout[1].key)
    /\ Returns(result)
    /\ result.value.vals[1] # Get(value, made.layout[1].key)

\* C10: instance(ctor, layout) succeeds exactly when object(layout) does and
\* fails with the same message; on success the layout results are on an
\* instance that ctor constructed in this invocation, and a second decode
\* returns another instance.
C10_Instance ==
    (Decoded /\ made.op = "instance") =>
        LET r == Run(object(made.layout), value)
        IN  /\ result.kind = r.kind
            /\ ~Returns(r) => (result.error = r.error /\ result.message = r.message)
            /\ Returns(r) =>
                  /\ result.value.proto = made.ctor.name
                  /\ result.value.keys = r.value.keys
                  /\ result.value.vals = r.value.vals
                  /\ result.value.id >= base
                  /\ result.st.calls[2] = Called(made.ctor, Undefined)
            /\ (pc = "again" /\ Returns(result) /\ Returns(prev))
                  => prev.value.id # result.value.id

\* the same decoder returned an instance twice
C10_Witness ==
    /\ pc = "again"
    /\ made.op = "instance"
    /\ Returns(prev)
    /\ Returns(result)
    /\ Len(result.value.keys) = 2

RECURSIVE AfterItems(_, _, _, _)
\* the interpreter state after d was interpreted once against each of
\* xs[1..n], in order, starting in st
AfterItems(d, xs, n, st) ==
    IF n = 0 THEN st
    ELSE decodeInternal(d, xs[n], AfterItems(d, xs, n - 1, st)).st

\* C11: when d accepts every element of the sequence xs, decode(many(d), xs)
\* returns a sequence of the same length whose element i is the result of d
\* on xs[i], the empty sequence for the empty sequence; an input that is not
\* a sequence fails.
C11_Many ==
    (Decoded /\ made.op = "many") =>
        IF ~IsArray(value) THEN Rejects(result)
        ELSE (\A i \in 1..Len(value.items) : Returns(Run(made.child, value.items[i])))
             => /\ Returns(result)
                /\ IsArray(result.value)
                /\ Len(result.value.items) = Len(value.items)
                /\ \A i \in 1..Len(value.items) :
                      LET top == Alloc(Log(Start, Interpret(decoder, value)))
                          r == decodeInternal(made.child, value.items[i],
                                              AfterItems(made.child, value.items, i - 1, top))
                      IN  result.value.items[i] = r.res.value

\* a sequence of several elements is decoded to results that are not the
\* elements themselves
C11_Witness ==
    /\ Decoded
    /\ made.op = "many"
    /\ IsArray(value)
    /\ Len(value.items) >= 2
    /\ Returns(result)
    /\ Len(result.value.items) = Len(value.items)
    /\ result.value.items # value.items

\* the lowest index (from 1) of an element of xs[i..] that d rejects, 0 when
\* d rejects none
RECURSIVE LowestRejected(_, _, _)
LowestRejected(d, xs, i) ==
    IF i > Len(xs) THEN 0
    ELSE IF Rejects(Run(d, xs[i])) THEN i
    ELSE LowestRejected(d, xs, i + 1)

\* the lines the MANY case adds to the message of a rejected element
ItemContext(k, xs) ==
    Cat(<<"", "when attempting to decode the item at index " \o ToString(k) \o " of", "">>,
        toDebugString(xs))

\* C12: when d rejects an element of the sequence xs and k is the lowest
\* index of a rejected element (d accepts the elements before it),
\* decode(many(d), xs) raises and the message is d's message for xs[k]
\* followed by the trace line that names k and the dump of the whole
\* sequence.
C12_ManyFirstFailure ==
    (Decoded /\ made.op = "many" /\ IsArray(value)) =>
        LET k == LowestRejected(made.child, value.items, 1)
        IN  (/\ k > 0
             /\ \A j \in 1..(k - 1) : Returns(Run(made.child, value.items[j])))
            => /\ Rejects(result)
               /\ result.message =
                     Cat(Run(made.child, value.items[k]).message, ItemContext(k - 1, value))

\* the first rejected element is not the first element, and a later element
\* is rejected too
C12_Witness ==
    /\ Decoded
    /\ made.op = "many"
    /\ IsArray(value)
    /\ LowestRejected(made.child, value.items, 1) = 3
    /\ Len(value.items) >= 4
    /\ Rejects(Run(made.child, value.items[4]))
    /\ Rejects(result)

\* the values of the own keys of a non-null object, in iteration order
ValuesOf(m) == [i \in 1..Len(OwnKeys(m)) |-> Get(m, OwnKeys(m)[i])]

\* C13: for a non-null value m of type object: when d accepts every value of
\* m, decode(dict(d), m) returns a newly allocated plain object, not m, with
\* exactly the keys of m, each bound to d's result on m[key]; when d rejects
\* a value of m (and accepts the values before it) the decode fails; an
\* input that is null or not of type object fails.
C13_Dict ==
    (Decoded /\ made.op = "dict") =>
        IF ~IsObject(value) THEN Rejects(result)
        ELSE LET xs == ValuesOf(value)
                 k == LowestRejected(made.child, xs, 1)
                 top == Alloc(Log(Start, Interpret(decoder, value)))
             IN  /\ (\A i \in 1..Len(xs) : Returns(Run(made.child, xs[i])))
                    => /\ Returns(result)
                       /\ result.value.t = "obj"
                       /\ result.value.proto = "Object"
                       /\ result.value.id >= base
                       /\ result.value.id # value.id
                       /\ result.value.keys = OwnKeys(value)
                       /\ \A i \in 1..Len(xs) :
                             result.value.vals[i] =
                                decodeInternal(made.child, xs[i],
                                               AfterItems(made.child, xs, i - 1, top)).res.value
                 /\ (k > 0 /\ \A j \in 1..(k - 1) : Returns(Run(made.child, xs[j])))
                    => Rejects(result)

\* an object of two keys is decoded to another object with the same keys
C13_Witness ==
    /\ Decoded
    /\ made.op = "dict"
    /\ value.t = "obj"
    /\ Len(value.keys) = 2
    /\ Returns(result)
    /\ result.value.keys = value.keys
    /\ result.value.id # value.id

\* the number of calls of fn among events[i..]
RECURSIVE CallsOf(_, _, _)
CallsOf(fn, events, i) ==
    IF i > Len(events) THEN 0
    ELSE (IF events[i].ev = "call" /\ events[i].fn = fn THEN 1 ELSE 0)
         + CallsOf(fn, events, i + 1)

\* C14: andThen(fn, child) first interprets child on the input; when child
\* fails, that failure is the result, unchanged, and fn is not called; when
\* child succeeds with r, fn(r) is called once, the decoder it returns is
\* interpreted against the input, not against r, and its outcome is the
\* outcome of the andThen.
C14_AndThen ==
    (Decoded /\ made.op = "andThen") =>
        LET top == Enter(Log(Start, Interpret(decoder, value)))
            c == decodeInternal(made.child, value, top)
            n == Len(c.st.calls)
        IN  /\ result.st.calls[2] = Interpret(made.child, value)
            /\ (c.exc = "none" /\ ~isOk(c.res)) =>
                  /\ Rejects(result)
                  /\ result.message = c.res.msg
                  /\ decodeInternal(decoder, value, Start).res = c.res
                  /\ result.st.calls = c.st.calls
            /\ (c.exc = "none" /\ isOk(c.res)) =>
                  LET f == Call(made.fn, c.res.value, c.st)
                  IN  /\ result.st.calls[n + 1] = Called(made.fn, c.res.value)
                      /\ CallsOf(made.fn, result.st.calls, n + 1) = 1
                      /\ f.exc = "none" =>
                            /\ result.st.calls[n + 2] = Interpret(f.ret, value)
                            /\ result = decodeOutcome(Leave(decodeInternal(f.ret, value, f.st),
                                                            Start.depth))

\* the result of the child is not the input, and the decoder fn returned
\* decodes the input to a value it does not decode the result of the child to
C14_Witness ==
    /\ Decoded
    /\ made.op = "andThen"
    /\ Returns(Run(made.child, value))
    /\ Run(made.child, value).value # value
    /\ Returns(result)
    /\ LET r == Run(made.child, value).value
           f == Call(made.fn, r, Start)
       IN  /\ f.exc = "none"
           /\ ~Returns(Run(f.ret, r))

\* C15: map(fn, child) succeeds exactly when child succeeds (fn returning):
\* when child succeeds with r the result is fn(r), fn being applied once,
\* to r; when child fails, its failure, message and marker, is the result
\* and fn is not called.
C15_Map ==
    (Decoded /\ made.op = "map") =>
        LET top == Enter(Log(Start, Interpret(decoder, value)))
            c == decodeInternal(made.child, value, top)
            n == Len(c.st.calls)
        IN  /\ (c.exc = "none" /\ ~isOk(c.res)) =>
                  /\ Rejects(result)
                  /\ result.message = c.res.msg
                  /\ decodeInternal(decoder, value, Start).res = c.res
                  /\ result.st.calls = c.st.calls
            /\ (c.exc = "none" /\ isOk(c.res)) =>
                  LET f == Call(made.fn, c.res.value, c.st)
                  IN  /\ result.st.calls = Append(c.st.calls, Called(made.fn, c.res.value))
                      /\ CallsOf(made.fn, result.st.calls, n + 1) = 1
                      /\ f.exc = "none" => (Returns(result) /\ result.value = f.ret)
            /\ Returns(result) => (c.exc = "none" /\ isOk(c.res))

\* the child succeeds with a number that is not the input, and the result is
\* ten times that number
C15_Witness ==
    /\ Decoded
    /\ made.op = "map"
    /\ made.fn.name = "times10"
    /\ Returns(Run(made.child, value))
    /\ Run(made.child, value).value # value
    /\ Run(made.child, value).value.t = "num"
    /\ Run(made.child, value).value.k = "fin"
    /\ Run(made.child, value).value.m > 0
    /\ Returns(result)
    /\ result.value = Tenths(10 * Run(made.child, value).value.m)

\* a finite number, and one without a fractional part
IsFinite(x) == x.t = "num" /\ x.k \in {"fin", "big"}
IsWhole(x) == IsFinite(x) /\ (x.k = "fin" => x.m % 10 = 0)

\* C16: integer succeeds, returning the value itself, exactly when the input
\* is a number equal to its own truncation: 42.0 and every integer of the
\* safe range, up to 2^53 - 1 in magnitude, pass; 42.5, not-a-number, the
\* two infinities and every value that is not a number fail.
C16_Integer ==
    (Decoded /\ made.op = "primitive" /\ decoder = integer) =>
        IF IsWhole(value)
        THEN Returns(result) /\ result.value = value
        ELSE Rejects(result)

\* C17, as stated: number accepts, returning the value itself, exactly the
\* finite numbers; not-a-number and every value that is not a number are
\* rejected.
C17_NumberFinite ==
    (Decoded /\ made.op = "primitive" /\ decoder = number) =>
        IF IsFinite(value)
        THEN Returns(result) /\ result.value = value
        ELSE Rejects(result)

\* C17, amended: number accepts, returning the value itself, exactly the
\* values of type number other than not-a-number, finite (integral or
\* fractional) or infinite; not-a-number and every value that is not of
\* type number are rejected.
C17_NumberNotNaN ==
    (Decoded /\ made.op = "primitive" /\ decoder = number) =>
        IF value.t = "num" /\ value.k # "nan"
        THEN Returns(result) /\ result.value = value
        ELSE Rejects(result)

\* number returned an infinity
C17_Witness ==
    /\ Decoded
    /\ made.op = "primitive"
    /\ decoder = number
    /\ value = NegInfinity
    /\ Returns(result)
    /\ result.value = NegInfinity

\* C18: succeed and fail ignore the input: for every value v and every input
\* x, null, undefined, objects and symbols included, decode(succeed(v), x)
\* returns v, and for every message m and every input x decode(fail(m), x)
\* raises an error whose message is m; neither looks further than its own
\* step.
C18_SucceedFail ==
    /\ (Decoded /\ made.op = "succeed") =>
           /\ Returns(result)
           /\ result.value = made.val
           /\ result.st.calls = <<Interpret(decoder, value)>>
    /\ (Decoded /\ made.op = "fail") =>
           /\ Rejects(result)
           /\ result.message = made.message
           /\ result.st.calls = <<Interpret(decoder, value)>>

\* succeed was given a symbol and returned its own, falsy, value
C18_Witness ==
    /\ Decoded
    /\ made.op = "succeed"
    /\ value.t = "symbol"
    /\ ~Truthy(made.val)
    /\ Returns(result)
    /\ result.value = made.val

\* the last call of a log is a call of a callback, and that call raises exc
RaisedByCallback(calls, exc) ==
    LET e == calls[Len(calls)]
    IN  /\ e.ev = "call"
        /\ Call(e.fn, e.arg, Start).exc = exc

\* C19, as stated: decode returns the decoded value when the interpretation
\* ends in Ok and otherwise raises one Error whose message is the final Err
\* message; every step returns a Result, so that nothing but that Error is
\* ever raised.
C19_OnlyTheFinalError ==
    Decoded =>
        LET r == decodeInternal(decoder, value, Start)
        IN  /\ r.exc = "none"
            /\ isOk(r.res) => (Returns(result) /\ result.value = r.res.value)
            /\ ~isOk(r.res) => (Rejects(result) /\ result.message = r.res.msg)

\* the engine ran out of stack: the frames of decodeInternal reached the
\* number the stack holds
RaisedByEngine(st, exc) ==
    /\ exc = "RangeError"
    /\ st.peak = MaxStack

\* JSON.stringify raised while the message of a failure was built: a value
\* that a step was given holds a BigInt
RaisedByStringify(calls, exc) ==
    /\ exc = "TypeError"
    /\ \E i \in 1..Len(calls) :
          /\ calls[i].ev = "decodeInternal"
          /\ StringifyRaises(calls[i].value)

\* C19, amended: decode returns the decoded value when the interpretation
\* ends in Ok and raises one Error whose message is the final Err message
\* when it ends in Err; every step of the interpreter returns a Result
\* unless an exception ends it, and the only exceptions are that of a
\* callback of the caller, at the call that raised it, that of the engine
\* when the recursion has used up the stack, and that of JSON.stringify
\* when the message of a failure is built for a value that holds a BigInt;
\* such an exception leaves decode as it was raised, with no message of a
\* decoder.
C19_Decode ==
    Decoded =>
        LET r == decodeInternal(decoder, value, Start)
            calls == result.st.calls
        IN  /\ (r.exc = "none" /\ isOk(r.res)) =>
                  (Returns(result) /\ result.value = r.res.value)
            /\ (r.exc = "none" /\ ~isOk(r.res)) =>
                  (Rejects(result) /\ result.message = r.res.msg)
            /\ r.exc # "none" =>
                  /\ result.kind = "throw"
                  /\ result.error = r.exc
                  /\ result.error # "Error"
                  /\ result.message = T("")
                  /\ \/ RaisedByCallback(calls, r.exc)
                     \/ RaisedByEngine(result.st, r.exc)
                     \/ RaisedByStringify(calls, r.exc)
            /\ (/\ result.kind = "throw"
                /\ ~RaisedByCallback(calls, result.error)
                /\ ~RaisedByEngine(result.st, result.error)
                /\ ~RaisedByStringify(calls, result.error))
                  => (r.exc = "none" /\ ~isOk(r.res))
            /\ (/\ \A i \in 1..Len(calls) :
                      calls[i].ev = "call" => Call(calls[i].fn, calls[i].arg, Start).exc = "none"
                /\ result.st.peak < MaxStack
                /\ \A i \in 1..Len(calls) :
                      calls[i].ev = "decodeInternal" => ~StringifyRaises(calls[i].value))
                  => r.exc = "none"

\* the transform given to map raised for a symbol, under an optional in
\* the layout of an object: decode raised its TypeError, the default of the
\* optional was not returned, and no message was built
C19_Witness ==
    /\ Decoded
    /\ decoder = object(<<Prop("a", optional(Num(0), map([name |-> "times10"], unknown)))>>)
    /\ value.t = "symbol"
    /\ result.kind = "throw"
    /\ result.error = "TypeError"
    /\ RaisedByCallback(result.st.calls, "TypeError")
    /\ ~RaisedByStringify(result.st.calls, "TypeError")
    /\ ~RaisedByEngine(result.st, "TypeError")

RECURSIVE Strip(_)
\* a value without the identities of its containers
Strip(v) ==
    IF v.t = "arr"
    THEN [v EXCEPT !.id = 0, !.items = [i \in 1..Len(v.items) |-> Strip(v.items[i])]]
    ELSE IF v.t = "obj"
    THEN [v EXCEPT !.id = 0, !.vals = [i \in 1..Len(v.vals) |-> Strip(v.vals[i])]]
    ELSE v

RECURSIVE Representable(_)
\* a value JSON represents: null, a boolean, a finite number, a string, or
\* an array or plain object of such values
Representable(x) ==
    CASE x.t \in {"null", "bool", "str"} -> TRUE
      [] x.t = "num" -> x.k \in {"fin", "big"}
      [] x.t = "arr" -> \A i \in 1..Len(x.items) : Representable(x.items[i])
      [] x.t = "obj" -> \A i \in 1..Len(x.vals) : Representable(x.vals[i])
      [] OTHER -> FALSE

\* the two outcomes are the same failure, or values that are deeply equal
Agree(o1, o2) ==
    /\ o1.kind = o2.kind
    /\ Returns(o1) => Strip(o1.value) = Strip(o2.value)
    /\ ~Returns(o1) => (o1.error = o2.error /\ o1.message = o2.message)

\* decode(d, x) for a value x the caller has just allocated
Fresh(d, x) ==
    LET in == Label(x, 1)
    IN  decode(d, in.v, Begin(in.next, Start.stack))

\* C20: decodeString(decoder, text) hands text to the parser first: when the
\* parse fails, that failure is raised and the decoder is not interpreted;
\* when it yields p, the outcome is that of decode(decoder, p); so for every
\* value x that JSON represents, decodeString(d, stringify(x)) agrees with
\* decode(d, x).
C20_DecodeString ==
    (pc = "decoded" /\ call.fn = "decodeString") =>
        LET p == JSONparse(call.str)
        IN  /\ ~p.ok =>
                  /\ result.kind = "throw"
                  /\ result.error = "SyntaxError"
                  /\ result.st.calls = <<>>
            /\ p.ok =>
                  /\ Strip(value) = p.v
                  /\ result.st.calls[1] = Interpret(decoder, value)
                  /\ SameOutcome(result, Run(decoder, value))
            /\ \A x \in TextValues :
                  (Representable(x) /\ call.str = JSONstringify(x))
                  => Agree(result, Fresh(decoder, x))

\* the text of an object with a nested object was parsed and decoded to a
\* value
C20_Witness ==
    /\ pc = "decoded"
    /\ call.fn = "decodeString"
    /\ \E x \in TextValues :
          /\ Representable(x)
          /\ x.t = "obj"
          /\ Len(x.keys) = 1
          /\ x.vals[1].t = "obj"
          /\ call.str = JSONstringify(x)
    /\ made.op \in {"field", "dict", "object"}
    /\ Returns(result)

\* the number of events of the log, from the i-th on, that interpret a lazy
\* node whose thunk is fn
RECURSIVE LazySteps(_, _, _)
LazySteps(fn, events, i) ==
    IF i > Len(events) THEN 0
    ELSE (IF events[i].ev = "decodeInternal" /\ events[i].decoder = lazy(fn) THEN 1 ELSE 0)
         + LazySteps(fn, events, i + 1)

\* the thunks of the model
Thunks == {"const", "manyTree", "loop"}

\* x is a tree: an integer under a, an array of trees under b
RECURSIVE IsTree(_)
IsTree(x) ==
    /\ x.t = "obj"
    /\ x.keys = <<"a", "b">>
    /\ x.vals[1].t = "num" /\ x.vals[1].k = "fin" /\ x.vals[1].m % 10 = 0
    /\ x.vals[2].t = "arr"
    /\ \A i \in 1..Len(x.vals[2].items) : IsTree(x.vals[2].items[i])

\* y is the tree x, every node an instance of Tree
RECURSIVE SameTree(_, _)
SameTree(x, y) ==
    /\ y.t = "obj"
    /\ y.proto = "Tree"
    /\ y.keys = <<"a", "b">>
    /\ y.vals[1] = x.vals[1]
    /\ y.vals[2].t = "arr"
    /\ Len(y.vals[2].items) = Len(x.vals[2].items)
    /\ \A i \in 1..Len(x.vals[2].items) : SameTree(x.vals[2].items[i], y.vals[2].items[i])

\* the number of nodes of the tree x
RECURSIVE Nodes(_)
SumNodes(xs, count(_)) ==
    LET RECURSIVE sum(_)
        sum(i) == IF i > Len(xs) THEN 0 ELSE count(xs[i]) + sum(i + 1)
    IN  sum(1)
Nodes(x) == 1 + SumNodes(x.vals[2].items, Nodes)

CutAtThunk(log, i) ==
    /\ i = Len(log)
    /\ result.kind = "throw"
    /\ RaisedByEngine(result.st, result.error)

RECURSIVE Containers(_)
Containers(x) ==
    IF x.t = "arr"
    THEN {x} \cup UNION {Containers(x.items[i]) : i \in 1..Len(x.items)}
    ELSE IF x.t = "obj"
    THEN {x} \cup UNION {Containers(x.vals[i]) : i \in 1..Len(x.vals)}
    ELSE {}

\* C22: whether decode returns or raises, every assignment the interpreter
\* made was to a container allocated during this decode, none to a
\* container of the input; what many, dict and object return is such a new
\* container; and a container of the input that is part of the result is
\* as it was given.
C22_InputUntouched ==
    Decoded =>
        /\ \A id \in result.st.writes : id >= base
        /\ \A c \in Containers(value) : c.id < base
        /\ Returns(result) =>
              /\ decoder.tag \in {MANY, DICT, OBJECT} =>
                    /\ result.value.id >= base
                    /\ result.value \notin Containers(value)
              /\ \A c \in Containers(result.value) :
                    c.id < base => c \in Containers(value)

\* many filled a new array with the results of two elements of the input
C22_Witness ==
    /\ Decoded
    /\ made.op = "many"
    /\ Returns(result)
    /\ Len(value.items) >= 2
    /\ result.st.writes = {result.value.id}
    /\ result.value.id # value.id

\* the members of an aggregate in the order of assembly, each with the
\* decoder and the value it is interpreted with: the elements of an array
\* for many, the property values in key order for dict, the layout children,
\* each with the whole input, for object and instance
Members(d, x) ==
    CASE d.tag = MANY -> [i \in 1..Len(x.items) |-> [dec |-> d.child, val |-> x.items[i]]]
      [] d.tag = DICT ->
            [i \in 1..Len(OwnKeys(x)) |-> [dec |-> d.child, val |-> Get(x, OwnKeys(x)[i])]]
      [] OTHER -> [i \in 1..Len(d.layout) |-> [dec |-> d.layout[i].child, val |-> x]]

\* the input is one the aggregate assembles from
Assembles(d, x) ==
    CASE d.tag = MANY -> IsArray(x)
      [] d.tag = DICT -> IsObject(x)
      [] OTHER -> d.tag \in {OBJECT, INSTANCE_TAG}

\* the interpreter state when the aggregate d turns to its first member
AtFirstMember(d, x) ==
    LET top == Enter(Log(Start, Interpret(d, x)))
    IN  IF d.tag = INSTANCE_TAG THEN Call(d.ctor, Undefined, top).st ELSE Alloc(top)

RECURSIVE AfterMembers(_, _, _)
\* the interpreter state after the members ms[1..n] were interpreted, in
\* order, starting in st
AfterMembers(ms, n, st) ==
    IF n = 0 THEN st
    ELSE decodeInternal(ms[n].dec, ms[n].val, AfterMembers(ms, n - 1, st)).st

RECURSIVE FirstFailed(_, _, _)
\* the first of the members ms[i..], interpreted in order from st, that ends
\* in an Err; 0 when none does or one raises before
FirstFailed(ms, i, st) ==
    IF i > Len(ms) THEN 0
    ELSE LET r == decodeInternal(ms[i].dec, ms[i].val, st)
         IN  IF r.exc # "none" THEN 0
             ELSE IF ~isOk(r.res) THEN i
             ELSE FirstFailed(ms, i + 1, r.st)

\* C24: when a member of a many, dict, object or instance ends in an Err,
\* the members before it having succeeded, decode raises that failure: the
\* log of the calls ends with the interpretation of that member, so no
\* later member is interpreted and no callback of a later member is
\* called; and the message is the message of that member alone, with the
\* trace of many, unchanged for dict, with or without the hint for object
\* and instance.
C24_FailFast ==
    (Decoded /\ decoder.tag \in {MANY, DICT, OBJECT, INSTANCE_TAG}
             /\ Assembles(decoder, value)) =>
        LET ms == Members(decoder, value)
            st == AtFirstMember(decoder, value)
            k == FirstFailed(ms, 1, st)
        IN  k > 0 =>
              LET r == decodeInternal(ms[k].dec, ms[k].val, AfterMembers(ms, k - 1, st))
              IN  /\ Rejects(result)
                  /\ result.st.calls = r.st.calls
                  /\ result.message =
                        CASE decoder.tag = MANY -> Cat(r.res.msg, manyTrace(k - 1, value))
                          [] decoder.tag = DICT -> r.res.msg
                          [] OTHER -> IF r.res.meta = Num(FIELD_ERROR_META) THEN r.res.msg
                                      ELSE Cat(T(hint), r.res.msg)

\* the first member of a dict fails, and a later member, whose
\* interpretation would call a callback, is not interpreted
C24_Witness ==
    /\ Decoded
    /\ decoder = dict(map([name |-> "times10"], integer))
    /\ IsObject(value)
    /\ Len(OwnKeys(value)) >= 2
    /\ FirstFailed(Members(decoder, value), 1, AtFirstMember(decoder, value)) = 1
    /\ Returns(Run(decoder.child, Get(value, OwnKeys(value)[2])))
    /\ Rejects(result)
    /\ CallsOf([name |-> "times10"], result.st.calls, 1) = 0

\* d is a nesting of field, many, object and instance layers over a
\* primitive, every layout child wrapped in field; a lazy between two
\* layers is no layer of its own
RECURSIVE IsLayers(_)
IsLayers(d) ==
    CASE d.tag \in {STRING_TAG, NUMBER, INTEGER, BOOL} -> TRUE
      [] d.tag = FIELD -> "otherwise" \notin DOMAIN d /\ IsLayers(d.child)
      [] d.tag = MANY -> IsLayers(d.child)
      [] d.tag = LAZY -> \/ d.fn.name = "manyTree"
                         \/ d.fn.name = "const" /\ IsLayers(d.fn.d)
      [] d.tag \in {OBJECT, INSTANCE_TAG} ->
            \A i \in 1..Len(d.layout) :
                d.layout[i].child.tag = FIELD /\ IsLayers(d.layout[i].child)
      [] OTHER -> FALSE

\* d has an object or instance layer
RECURSIVE HasObjectLayer(_)
HasObjectLayer(d) ==
    CASE d.tag \in {OBJECT, INSTANCE_TAG} -> TRUE
      [] d.tag \in {FIELD, MANY} -> HasObjectLayer(d.child)
      [] d.tag = LAZY -> d.fn.name = "manyTree" \/ HasObjectLayer(d.fn.d)
      [] OTHER -> FALSE

\* for layers d that reject x: the message of the mismatch, at the layer
\* that rejects the value it is given, followed by the trace of each field
\* and many layer around it, the innermost first
RECURSIVE OutsideIn(_, _)
OutsideIn(d, x) ==
    CASE d.tag = FIELD /\ IsObject(x) /\ HasKey(x, d.key) ->
            Cat(OutsideIn(d.child, Get(x, d.key)), fieldTrace(d.key, x))
      [] d.tag = MANY /\ IsArray(x) ->
            LET k == LowestRejected(d.child, x.items, 1)
            IN  Cat(OutsideIn(d.child, x.items[k]), manyTrace(k - 1, x))
      [] d.tag = LAZY -> OutsideIn(Call(d.fn, Undefined, Start).ret, x)
      [] d.tag \in {OBJECT, INSTANCE_TAG} ->
            OutsideIn(d.layout[FirstRejecting(d.layout, x, 1)].child, x)
      [] OTHER -> Run(d, x).message

\* the message of the deepest mismatch alone
RECURSIVE Deepest(_, _)
Deepest(d, x) ==
    CASE d.tag = FIELD /\ IsObject(x) /\ HasKey(x, d.key) -> Deepest(d.child, Get(x, d.key))
      [] d.tag = MANY /\ IsArray(x) ->
            Deepest(d.child, x.items[LowestRejected(d.child, x.items, 1)])
      [] d.tag = LAZY -> Deepest(Call(d.fn, Undefined, Start).ret, x)
      [] d.tag \in {OBJECT, INSTANCE_TAG} ->
            Deepest(d.layout[FirstRejecting(d.layout, x, 1)].child, x)
      [] OTHER -> Run(d, x).message

\* the text begins with the text head, whose last line is empty
BeginsWith(text, head) ==
    /\ Len(text) >= Len(head)
    /\ SubSeq(text, 1, Len(head) - 1) = SubSeq(head, 1, Len(head) - 1)

\* C25: when layers of field, many, object and instance reject a value,
\* the message begins with the message of the deepest mismatch; the
\* traces of the enclosing field and many layers follow it, the innermost
\* first, and nothing else does when no layer is an object or an instance.
C25_OutsideIn ==
    (Decoded /\ IsLayers(decoder) /\ Rejects(result)) =>
        /\ BeginsWith(result.message, Deepest(decoder, value))
        /\ ~HasObjectLayer(decoder) => result.message = OutsideIn(decoder, value)

\* the decoders a function given to andThen may return, the node it was
\* given to left out
Returned(fn) ==
    CASE fn.name = "big" -> <<succeed(Str("big"))>>
      [] fn.name = "loopThen" -> <<>>
      [] fn.name = "response" ->
            <<field("a", fn.d), andThen([name |-> "gotError"], field("b", string))>>
      [] OTHER -> <<fail(T(""))>>

\* the decoders a decoder hands the interpretation on to
Kids(d) ==
    CASE d.tag \in {FIELD, MANY, DICT, MAP} -> <<d.child>>
      [] d.tag = AND_THEN -> <<d.child>> \o Returned(d.fn)
      [] d.tag = LAZY -> IF d.fn.name = "const" THEN <<d.fn.d>> ELSE <<>>
      [] d.tag \in {OBJECT, INSTANCE_TAG} -> [i \in 1..Len(d.layout) |-> d.layout[i].child]
      [] d.tag = ONE_OF -> d.decoders
      [] OTHER -> <<>>

\* the number of decoder nodes of d; the lazy node of the tree decoder
\* counts with the many its thunk returns, whose child is the tree decoder
RECURSIVE Size(_)
SizeOfAll(ds) ==
    LET RECURSIVE sum(_)
        sum(i) == IF i > Len(ds) THEN 0 ELSE Size(ds[i]) + sum(i + 1)
    IN  sum(1)
Size(d) ==
    (IF d.tag = LAZY /\ d.fn.name = "manyTree" THEN 2 ELSE 1) + SizeOfAll(Kids(d))

\* d holds a lazy or andThen node whose callback returns that node, to be
\* interpreted against the value the node was interpreted against
RECURSIVE Loops(_)
Loops(d) ==
    \/ d.tag = LAZY /\ d.fn.name = "loop"
    \/ d.tag = AND_THEN /\ d.fn.name = "loopThen"
    \/ \E i \in 1..Len(Kids(d)) : Loops(Kids(d)[i])

\* the nesting depth of a value: 0 for a value that is no container
RECURSIVE Nesting(_)
Nesting(x) ==
    LET inner == IF x.t = "arr" THEN x.items ELSE x.vals
        depths == {Nesting(inner[i]) : i \in 1..Len(inner)}
    IN  IF ~IsObject(x) THEN 0
        ELSE IF depths = {} THEN 1
        ELSE 1 + CHOOSE n \in depths : \A m \in depths : m <= n

\* the engine ran out of stack
Exhausted(out) == out.kind = "throw" /\ out.error = "RangeError"

\* C26, as stated: for every decoder, those that reach themselves through
\* lazy included, the depth of the interpretation is bounded by the nesting
\* depth of the input (for each level of it, at most once through the
\* nodes of the decoder), and decode returns or raises a failure.
C26_Terminates ==
    Decoded =>
        /\ ~Exhausted(result)
        /\ result.st.peak <= Size(decoder) * (Nesting(value) + 1)

\* C26, amended: for a decoder in which no callback (a thunk given to
\* lazy, a function given to andThen) returns a decoder that leads back to
\* that callback on the same value, the tree decoder included, whose
\* interpretations go down into the input from one call of the thunk to
\* the next, the depth is bounded as stated and the stack is never
\* exhausted; a lazy or andThen decoder that is its own callback's result
\* uses up the stack on every input, and decode raises what the engine
\* raises then.
C26_Bounded ==
    Decoded =>
        /\ ~Loops(decoder) =>
              /\ ~Exhausted(result)
              /\ result.st.peak <= Size(decoder) * (Nesting(value) + 1)
              /\ result.st.peak < MaxStack
        /\ decoder \in {Loop_decoder, LoopThen_decoder} =>
              /\ Exhausted(result)
              /\ result.st.peak = MaxStack
              /\ result.message = T("")

\* the tree decoder went down to the third level of a tree
C26_Witness ==
    /\ Decoded
    /\ decoder = Tree_decoder
    /\ Nesting(value) = 6
    /\ result.st.peak > 8
    /\ ~Exhausted(result)

\* C27: when a call of a callback raises during a decode, it is the last
\* call of the log: no alternative of an enclosing oneOf, no default of an
\* enclosing optional and no other decoder is interpreted after it; and
\* decode raises that exception, not an Error with a message of the
\* enclosing layers.
C27_CallbackRaises ==
    Decoded =>
        LET log == result.st.calls
        IN  \A i \in 1..Len(log) :
                (log[i].ev = "call" /\ Call(log[i].fn, log[i].arg, Start).exc # "none") =>
                    /\ i = Len(log)
                    /\ result.kind = "throw"
                    /\ result.error = Call(log[i].fn, log[i].arg, Start).exc
                    /\ result.message = T("")

\* the function given to andThen raised in the first alternative of an
\* optional under a field, and the default was not returned
C27_Witness ==
    /\ Decoded
    /\ decoder = field("a", optional(Num(0), andThen([name |-> "big"], number)))
    /\ IsObject(value)
    /\ HasKey(value, "a")
    /\ result.kind = "throw"
    /\ result.error = "ReferenceError"
    /\ result.st.calls[Len(result.st.calls)] = Called([name |-> "big"], Get(value, "a"))

RECURSIVE Rewritten(_, _)
\* for a decoder d that rejects x: the failure was returned by an object or
\* instance layer, and came up from it through field, many, dict, map,
\* andThen and lazy layers only
Rewritten(d, x) ==
    CASE d.tag \in {OBJECT, INSTANCE_TAG} -> TRUE
      [] d.tag = FIELD ->
            /\ IsObject(x)
            /\ HasKey(x, d.key)
            /\ Rewritten(d.child, Get(x, d.key))
      [] d.tag = MANY ->
            /\ IsArray(x)
            /\ Rewritten(d.child, x.items[LowestRejected(d.child, x.items, 1)])
      [] d.tag = DICT ->
            /\ IsObject(x)
            /\ Rewritten(d.child, ValuesOf(x)[LowestRejected(d.child, ValuesOf(x), 1)])
      [] d.tag = MAP -> Rewritten(d.child, x)
      [] d.tag = AND_THEN ->
            IF Rejects(Run(d.child, x)) THEN Rewritten(d.child, x)
            ELSE Rewritten(Call(d.fn, Run(d.child, x).value, Start).ret, x)
      [] d.tag = LAZY -> Rewritten(Call(d.fn, Undefined, Start).ret, x)
      [] OTHER -> FALSE

\* C28: when the layout child c of an object or instance rejects the
\* input: a failure that an inner object or instance returned, and that came
\* up through field, many, dict, map, andThen and lazy only, is returned
\* with the message of c, the hint not added a second time; the failure of a
\* oneOf is returned with the hint before the message of the oneOf, also
\* when an alternative of the oneOf was rejected by an object or instance.
C28_HintOnce ==
    (Decoded /\ decoder.tag \in {OBJECT, INSTANCE_TAG} /\ Rejects(result)) =>
        LET i == FirstRejecting(decoder.layout, value, 1)
            c == decoder.layout[i].child
            m == Run(c, value).message
        IN  /\ i > 0
            /\ Rewritten(c, value) => result.message = m
            /\ c.tag = ONE_OF => result.message = Cat(T(hint), m)

\* an object whose layout child is a field of an inner object: the inner
\* object added the hint to the failure of its child, the field added its
\* trace, and the outer object returned that message
C28_Witness ==
    /\ Decoded
    /\ decoder = object(<<Prop("a", field("a", Inner))>>)
    /\ IsObject(value)
    /\ HasKey(value, "a")
    /\ Rejects(result)
    /\ result.message =
          Cat(Cat(T(hint), Run(integer, Get(value, "a")).message), fieldTrace("a", value))

\* C29: when the child of a dict rejects the value of a key (the values of
\* the keys before it accepted), the failure the DICT case returns is the
\* failure the child returns for that value: the same message, with no
\* line for the key or the container, and the same marker.
C29_DictNoContext ==
    (Decoded /\ decoder.tag = DICT /\ IsObject(value)) =>
        LET xs == ValuesOf(value)
            k == LowestRejected(decoder.child, xs, 1)
            r == decodeInternal(decoder.child, xs[k], Start)
            whole == decodeInternal(decoder, value, Start)
        IN  (k > 0 /\ \A j \in 1..(k - 1) : Returns(Run(decoder.child, xs[j]))) =>
                /\ Rejects(result)
                /\ result.message = r.res.msg
                /\ whole.exc = "none"
                /\ whole.res.msg = r.res.msg
                /\ whole.res.meta = r.res.meta

\* the inner object rejected the value of the second key: its failure has
\* the marker and the hint, and the dict returned it
C29_Witness ==
    /\ Decoded
    /\ decoder = dict(Inner)
    /\ IsObject(value)
    /\ LowestRejected(Inner, ValuesOf(value), 1) = 2
    /\ Rejects(result)
    /\ decodeInternal(decoder, value, Start).res.meta = Num(FIELD_ERROR_META)
    /\ result.message = Cat(T(hint), Run(integer, ValuesOf(value)[2]).message)
====
